---- MODULE Spec2Model ----
(***************************************************************************)
(* Model of the Evergreen grower dashboard (src/app_web.py): the records   *)
(* table and its request handlers, the index date projection, the          *)
(* clone-demand forecast, the local nutrient-advice lookup and the advisor *)
(* page, the workers, tasks and daily tables with their handlers, the      *)
(* database upload, and /db_check of src/app_web_prod.py.                  *)
(*                                                                         *)
(* Dates are proleptic Gregorian ordinals, as in Python's datetime.date    *)
(* (ordinal 1 = 0001-01-01, a Monday).  A text value (a form field or a    *)
(* TEXT column) is the sequence of its whitespace-separated tokens; a      *)
(* token is either of the shape digits-digits-digits (kind "ymd", with the *)
(* three numbers) or anything else (kind "word").                          *)
(***************************************************************************)
EXTENDS Integers, Sequences, FiniteSets, TLC

VARIABLES records, nextId, today, resp, advIn,
          workers, tasks, nextTaskId, daily, conn, procs, environ

\* the tables and counters beside records
staff == <<workers, tasks, nextTaskId, daily>>

vars == <<records, nextId, today, workers, tasks, nextTaskId, daily, conn,
          procs, environ, advIn, resp>>

----------------------------------------------------------------------------
(* Bounds of the model *)

\* number of rows ever inserted into the records table
MaxId == 2
\* number of days after Today0 on which the requests may be served
MaxDays == 1
\* number of rows ever inserted into the workers table
MaxWorkers == 2
\* number of rows ever inserted into the tasks table
MaxTaskId == 2
\* number of rows ever inserted into the daily table
MaxDaily == 2
\* number of requests to /edit and /toggle-planned served at the same time
MaxProcs == 2

----------------------------------------------------------------------------
(* datetime.date arithmetic *)

MINYEAR == 1
MAXYEAR == 9999

DAYS_IN_MONTH == <<31, 28, 31, 30, 31, 30, 31, 31, 30, 31, 30, 31>>
DAYS_BEFORE_MONTH == <<0, 31, 59, 90, 120, 151, 181, 212, 243, 273, 304, 334>>

_is_leap(y) == y % 4 = 0 /\ (y % 100 # 0 \/ y % 400 = 0)

_days_before_year(y) ==
    LET p == y - 1 IN p * 365 + (p \div 4) - (p \div 100) + (p \div 400)

_days_in_month(y, m) ==
    IF m = 2 /\ _is_leap(y) THEN 29 ELSE DAYS_IN_MONTH[m]

_days_before_month(y, m) ==
    DAYS_BEFORE_MONTH[m] + (IF m > 2 /\ _is_leap(y) THEN 1 ELSE 0)

_ymd2ord(y, m, d) == _days_before_year(y) + _days_before_month(y, m) + d

\* date.max.toordinal()
MaxOrdinal == _ymd2ord(MAXYEAR, 12, 31)

Ymd(y, m, d) == [y |-> y, m |-> m, d |-> d]

\* ordinal -> (year, month, day)
_ord2ymd(ord) ==
    LET n0   == ord - 1
        n400 == n0 \div 146097
        r400 == n0 % 146097
        n100 == r400 \div 36524
        r100 == r400 % 36524
        n4   == r100 \div 1461
        r4   == r100 % 1461
        n1   == r4 \div 365
        n    == r4 % 365
        year == n400 * 400 + 1 + n100 * 100 + n4 * 4 + n1
        leap == n1 = 3 /\ (n4 # 24 \/ n100 = 3)
        mth  == (n + 50) \div 32
        prec == DAYS_BEFORE_MONTH[mth] + (IF mth > 2 /\ leap THEN 1 ELSE 0)
        mth2 == IF prec > n THEN mth - 1 ELSE mth
        dim2 == DAYS_IN_MONTH[mth2] + (IF mth2 = 2 /\ leap THEN 1 ELSE 0)
        pre2 == IF prec > n THEN prec - dim2 ELSE prec
    IN  IF n1 = 4 \/ n100 = 4
        THEN Ymd(year - 1, 12, 31)
        ELSE Ymd(year, mth2, n - pre2 + 1)

\* date.weekday(): Monday = 0 ... Sunday = 6
weekday(ord) == (ord + 6) % 7

\* a date plus a timedelta: the new ordinal, or OverflowError
DateInRange(ord) == ord >= 1 /\ ord <= MaxOrdinal

NINE_WEEKS == 9

----------------------------------------------------------------------------
(* Text values *)

Word == [kind |-> "word", y |-> 0, m |-> 0, d |-> 0]
DateTok(y, m, d) == [kind |-> "ymd", y |-> y, m |-> m, d |-> d]

\* date.isoformat(): the text "YYYY-MM-DD" of an ordinal
isoformat(ord) ==
    LET c == _ord2ymd(ord) IN <<DateTok(c.y, c.m, c.d)>>

\* The value None of a parsed date (ordinals start at 1)
None == 0

\* datetime.strptime(tok, "%Y-%m-%d").date(): the ordinal, or None where
\* strptime raises ValueError (shape mismatch, month or day outside the
\* format's range, year 0, day beyond the month's length)
strptime_ymd(tok) ==
    IF /\ tok.kind = "ymd"
       /\ tok.y >= MINYEAR /\ tok.y <= MAXYEAR
       /\ tok.m >= 1 /\ tok.m <= 12
       /\ tok.d >= 1 /\ tok.d <= _days_in_month(tok.y, tok.m)
    THEN _ymd2ord(tok.y, tok.m, tok.d)
    ELSE None

\* _parse_date_ymd(s), and the identical try/except of index: the first
\* whitespace-separated token parsed as a date; None when there is no
\* token (IndexError) or the token is not a date (ValueError)
_parse_date_ymd(s) ==
    IF Len(s) = 0 THEN None ELSE strptime_ymd(s[1])

----------------------------------------------------------------------------
(* Inputs *)

\* date.today() is one of the days Today0 .. Today0 + MaxDays (a Sunday
\* and the days after it)
Today0 == _ymd2ord(2024, 1, 7)
Todays == Today0..(Today0 + MaxDays)

\* flower_date texts: parseable dates (one followed by a second token),
\* the empty text, a word, and a day that does not exist
Jan01 == <<DateTok(2024, 1, 1)>>
Jan03 == <<DateTok(2024, 1, 3), Word>>
Old   == <<DateTok(2023, 11, 1)>>
Nov05 == <<DateTok(2023, 11, 5)>>
Far   == <<DateTok(9999, 12, 1)>>
Empty == <<>>
Junk  == <<Word>>
Feb30 == <<DateTok(2024, 2, 30)>>

\* the plants form field: an integer literal, the empty string, or text
\* that int() rejects
IntText(v) == [txt |-> "int", v |-> v]
EmptyText == [txt |-> "empty", v |-> 0]
WordText == [txt |-> "word", v |-> 0]

Form(room, plants, strain, flower_date) ==
    [room |-> room, plants |-> plants, strain |-> strain,
     flower_date |-> flower_date]

\* the forms submitted to /add and /edit
Forms ==
    { Form("F1", p, "OG", d) : p \in {IntText(0), IntText(5), IntText(10)},
                               d \in {Jan01, Jan03} }
    \cup { Form("F1", IntText(10), "OG", d) : d \in {Old, Nov05, Far} }
    \cup { Form("F1", IntText(5), "OG", d) : d \in {Empty, Junk, Feb30} }
    \cup { Form("F1", EmptyText, "OG", Old), Form("F1", WordText, "OG", Jan01) }

FutureArgs == {"0", "1"}

----------------------------------------------------------------------------
(* The records table *)

\* int(request.form.get('plants','0') or 0): '' counts as 0; text that is
\* not an integer literal raises ValueError
IntRaises(p) == p.txt = "word"
IntOf(p) == IF p.txt = "int" THEN p.v ELSE 0

Reverse(s) == [i \in 1..Len(s) |-> s[Len(s) + 1 - i]]

HasId(recs, rid) == \E i \in 1..Len(recs) : recs[i].id = rid

NoRows == <<>>

\* What a request answered: the handler, the HTTP status, the rows it
\* produced, the locals of its loop, the value of date.today() it read
\* (None when it reads none) and its argument
NoArg == "-"

Response(h, st, rows, calc, td, arg) ==
    [handler |-> h, status |-> st, rows |-> rows, calc |-> calc,
     today |-> td, arg |-> arg]

\* POST /add
add_record(room, plants, strain, flower_date) ==
    /\ nextId <= MaxId
    /\ IF IntRaises(plants)
       THEN /\ resp' = Response("add_record", 500, NoRows, <<>>, None, NoArg)
            /\ UNCHANGED <<records, nextId>>
       ELSE /\ records' = Append(records,
                  [id |-> nextId, room |-> room, plants |-> IntOf(plants),
                   strain |-> strain, flower_date |-> flower_date,
                   planned |-> 0])
            /\ nextId' = nextId + 1
            /\ resp' = Response("add_record", 302, NoRows, <<>>, None, NoArg)
    /\ UNCHANGED <<today, advIn, staff>>
    /\ conn' = "closed"
    /\ UNCHANGED <<procs, environ>>

\* UPDATE records SET ... without its WHERE id=? : every row is rewritten
edit_record_all_rows(rid, room, plants, strain, flower_date) ==
    /\ IF ~HasId(records, rid)
       THEN /\ resp' = Response("edit_record", 302, NoRows, <<>>, None, NoArg)
            /\ UNCHANGED records
       ELSE IF IntRaises(plants)
       THEN /\ resp' = Response("edit_record", 500, NoRows, <<>>, None, NoArg)
            /\ UNCHANGED records
       ELSE /\ records' = [i \in 1..Len(records) |->
                  [records[i] EXCEPT !.room = room,
                                     !.plants = IntOf(plants),
                                     !.strain = strain,
                                     !.flower_date = flower_date]]
            /\ resp' = Response("edit_record", 302, NoRows, <<>>, None, NoArg)
    /\ UNCHANGED <<nextId, today, advIn, staff>>
    /\ conn' = "closed"
    /\ UNCHANGED <<procs, environ>>

\* POST /edit/<rid>
edit_record(rid, room, plants, strain, flower_date) ==
    /\ IF ~HasId(records, rid)
       THEN /\ resp' = Response("edit_record", 302, NoRows, <<>>, None, NoArg)
            /\ UNCHANGED records
       ELSE IF IntRaises(plants)
       THEN /\ resp' = Response("edit_record", 500, NoRows, <<>>, None, NoArg)
            /\ UNCHANGED records
       ELSE /\ records' = [i \in 1..Len(records) |->
                  IF records[i].id = rid
                  THEN [records[i] EXCEPT !.room = room,
                                          !.plants = IntOf(plants),
                                          !.strain = strain,
                                          !.flower_date = flower_date]
                  ELSE records[i]]
            /\ resp' = Response("edit_record", 302, NoRows, <<>>, None, NoArg)
    /\ UNCHANGED <<nextId, today, advIn, staff>>
    /\ conn' = "closed"
    /\ UNCHANGED <<procs, environ>>

\* GET /delete/<rid>
delete_record(rid) ==
    /\ records' = SelectSeq(records, LAMBDA r : r.id # rid)
    /\ resp' = Response("delete_record", 302, NoRows, <<>>, None, NoArg)
    /\ UNCHANGED <<nextId, today, advIn, staff>>
    /\ conn' = "closed"
    /\ UNCHANGED <<procs, environ>>

\* the flag set whatever it was: UPDATE records SET planned=1 WHERE id=?
toggle_planned_rows_set(recs, rid) ==
    [i \in 1..Len(recs) |->
        IF recs[i].id = rid THEN [recs[i] EXCEPT !.planned = 1] ELSE recs[i]]

\* new_val = 0 if int(row[0] or 0) == 1 else 1;
\* UPDATE records SET planned=? WHERE id=?
toggle_planned_rows(recs, rid) ==
    [i \in 1..Len(recs) |->
        IF recs[i].id = rid
        THEN [recs[i] EXCEPT !.planned = IF recs[i].planned = 1 THEN 0 ELSE 1]
        ELSE recs[i]]

\* POST /record/<rid>/toggle-planned: planned becomes 0 when it is 1 and
\* 1 otherwise; nothing happens when no row has the id
toggle_planned(rid) ==
    /\ records' = toggle_planned_rows(records, rid)
    /\ resp' = Response("toggle_planned", 302, NoRows, <<>>, None, NoArg)
    /\ UNCHANGED <<nextId, today, advIn, staff>>
    /\ conn' = "closed"
    /\ UNCHANGED <<procs, environ>>

----------------------------------------------------------------------------
(* GET / : the listing with its date projection *)

\* the harvest date taken nine days, not nine weeks, after the flower date
index_harvest_days(fdate) == IF fdate # None THEN fdate + 9 ELSE None

\* harvest = fdate + timedelta(weeks=9) if fdate else None
index_harvest(fdate) == IF fdate # None THEN fdate + 9 * 7 ELSE None

\* the addition raises OverflowError past date.max
index_raises(recs) ==
    \E i \in 1..Len(recs) :
        LET fdate == _parse_date_ymd(recs[i].flower_date)
        IN  fdate # None /\ ~DateInRange(index_harvest(fdate))

\* the days remaining clamped at zero once the harvest has passed
index_days_clamped(harvest, td) ==
    IF harvest # None
    THEN <<IF harvest - td < 0 THEN 0 ELSE harvest - td>>
    ELSE <<>>

\* days_rem = (harvest - date.today()).days if harvest else ''
index_days(harvest, td) == IF harvest # None THEN <<harvest - td>> ELSE <<>>

index_row(r, td) ==
    LET harvest == index_harvest(_parse_date_ymd(r.flower_date))
    IN  [id |-> r.id, room |-> r.room, plants |-> r.plants,
         strain |-> r.strain, flower_date |-> r.flower_date,
         harvest |-> IF harvest # None THEN isoformat(harvest) ELSE <<>>,
         days |-> index_days(harvest, td),
         planned |-> r.planned]

\* a harvest that falls on today skipped as well
index_skips_today(r, td, future_only) ==
    LET harvest == index_harvest(_parse_date_ymd(r.flower_date))
    IN  harvest # None /\ future_only /\ harvest <= td

\* if harvest and future_only and harvest < date.today(): continue
index_skips(r, td, future_only) ==
    LET harvest == index_harvest(_parse_date_ymd(r.flower_date))
    IN  harvest # None /\ future_only /\ harvest < td

index_rows(recs, td, future_only) ==
    LET kept == SelectSeq(Reverse(recs),
                          LAMBDA r : ~index_skips(r, td, future_only))
    IN  [i \in 1..Len(kept) |-> index_row(kept[i], td)]

index(future) ==
    /\ resp' = IF index_raises(records)
               THEN Response("index", 500, NoRows, <<>>, today, future)
               ELSE Response("index", 200,
                             index_rows(records, today, future = "1"), <<>>,
                             today, future)
    /\ UNCHANGED <<records, nextId, today, advIn, staff>>
    /\ conn' = "closed"
    /\ UNCHANGED <<procs, environ>>

----------------------------------------------------------------------------
(* Clone demand *)

\* the plants filter left out: every record whose date parses is a source row
get_clone_source_rows_all(recs) ==
    LET counted == SelectSeq(recs, LAMBDA r :
                       _parse_date_ymd(r.flower_date) # None)
    IN  [i \in 1..Len(counted) |->
            [flower |-> _parse_date_ymd(counted[i].flower_date),
             plants |-> counted[i].plants]]

\* get_clone_source_rows(): (flower, plants) of the records whose date
\* parses and whose plants value is truthy, in table order
get_clone_source_rows(recs) ==
    LET counted == SelectSeq(recs, LAMBDA r :
                       _parse_date_ymd(r.flower_date) # None /\ r.plants # 0)
    IN  [i \in 1..Len(counted) |->
            [flower |-> _parse_date_ymd(counted[i].flower_date),
             plants |-> counted[i].plants]]

\* the week floored with isoweekday() (Monday = 1) instead of weekday()
clone_locals_isoweekday(e) ==
    LET harvest     == e.flower + NINE_WEEKS * 7
        clone_start == harvest - NINE_WEEKS * 7
        week_start  == clone_start - (weekday(clone_start) + 1)
    IN  [flower |-> e.flower, plants |-> e.plants, harvest |-> harvest,
         clone_start |-> clone_start, week_start |-> week_start]

\* the locals of one pass of the loop body of compute_clone_demand_grouped
clone_locals(e) ==
    LET harvest     == e.flower + NINE_WEEKS * 7
        clone_start == harvest - NINE_WEEKS * 7
        week_start  == clone_start - weekday(clone_start)
    IN  [flower |-> e.flower, plants |-> e.plants, harvest |-> harvest,
         clone_start |-> clone_start, week_start |-> week_start]

\* the bucket overwritten instead of accumulated
bucket_add_overwrite(buckets, wk, plants) ==
    [k \in DOMAIN buckets \cup {wk} |->
        IF k = wk THEN plants ELSE buckets[k]]

\* buckets[week_start] = buckets.get(week_start, 0) + plants
bucket_add(buckets, wk, plants) ==
    [k \in DOMAIN buckets \cup {wk} |->
        IF k = wk
        THEN (IF wk \in DOMAIN buckets THEN buckets[wk] ELSE 0) + plants
        ELSE buckets[k]]

RECURSIVE bucket_loop(_, _, _, _)
bucket_loop(raw, i, earliest_week_start, buckets) ==
    IF i > Len(raw) THEN buckets
    ELSE LET l == clone_locals(raw[i])
         IN  bucket_loop(raw, i + 1, earliest_week_start,
                 IF l.week_start >= earliest_week_start
                 THEN bucket_add(buckets, l.week_start, l.plants)
                 ELSE buckets)

\* sorted(buckets.items()): the keys in ascending order
RECURSIVE sorted(_)
sorted(S) ==
    IF S = {} THEN <<>>
    ELSE LET mn == CHOOSE x \in S : \A y \in S : x <= y
         IN  <<mn>> \o sorted(S \ {mn})

\* floor(log2(n)) for n >= 1
RECURSIVE ilog2(_)
ilog2(n) == IF n < 2 THEN 0 ELSE 1 + ilog2(n \div 2)

RECURSIVE pow2(_)
pow2(e) == IF e = 0 THEN 1 ELSE 2 * pow2(e - 1)

\* 100 * m - pct * 2^52, where m / 2^52 is the binary64 value of the
\* literal 1.05, 1.10, 1.15, 1.20: the representation error of the factor
factor_err(pct) ==
    CASE pct = 105 -> 20
      [] pct = 110 -> 40
      [] pct = 115 -> -40
      [] pct = 120 -> -20

\* int(round(total * f)) for the binary64 factor f = pct/100 (+ error).
\* The exact product total*pct/100 is not a half-integer: the nearest
\* integer.  It is a half-integer q + 1/2: the binary64 product is exactly
\* q + 1/2 when the accumulated error total * factor_err is within half an
\* ulp (50 * 2^e in these units, e the exponent of q), and round() then
\* rounds the half to the even neighbour; otherwise the product lies on the
\* side of the error and round() goes there.
RECURSIVE round_scaled(_, _)
round_scaled(total, pct) ==
    IF total < 0 THEN 0 - round_scaled(0 - total, pct)
    ELSE LET q   == (total * pct) \div 100
             r   == (total * pct) % 100
             err == total * factor_err(pct)
             mag == IF err < 0 THEN 0 - err ELSE err
         IN  IF r < 50 THEN q
             ELSE IF r > 50 THEN q + 1
             ELSE IF mag <= 50 * pow2(ilog2(q))
                  THEN (IF q % 2 = 0 THEN q ELSE q + 1)
                  ELSE (IF err > 0 THEN q + 1 ELSE q)

clone_out_row(wk, total) ==
    [week |-> isoformat(wk),
     harvest_week |-> isoformat(wk + NINE_WEEKS * 7),
     plants |-> total,
     p5  |-> round_scaled(total, 105),
     p10 |-> round_scaled(total, 110),
     p15 |-> round_scaled(total, 115),
     p20 |-> round_scaled(total, 120)]

\* the cutoff counted back from today instead of from the week's Monday
earliest_week_start_today(td, past_weeks) ==
    td - 7 * (IF past_weeks > 0 THEN past_weeks ELSE 0)

\* earliest_week_start = start_of_this_week - timedelta(weeks=max(0, pw))
earliest_week_start(td, past_weeks) ==
    LET start_of_this_week == td - weekday(td)
        pw == past_weeks
    IN  start_of_this_week - 7 * (IF pw > 0 THEN pw ELSE 0)

\* compute_clone_demand_grouped(past_weeks): [ok, out, calc]; ok is FALSE
\* when a date addition raises OverflowError
compute_clone_demand_grouped(recs, td, past_weeks) ==
    LET raw     == get_clone_source_rows(recs)
        calc    == [i \in 1..Len(raw) |-> clone_locals(raw[i])]
        raises  == \E i \in 1..Len(raw) : ~DateInRange(calc[i].harvest)
        buckets == bucket_loop(raw, 1, earliest_week_start(td, past_weeks),
                               <<>>)
        keys    == sorted(DOMAIN buckets)
    IN  IF raises THEN [ok |-> FALSE, out |-> <<>>, calc |-> <<>>]
        ELSE [ok |-> TRUE,
              out |-> [i \in 1..Len(keys) |->
                          clone_out_row(keys[i], buckets[keys[i]])],
              calc |-> calc]

----------------------------------------------------------------------------
(* Clone demand handlers *)

\* the row shown when the computation raised: {"week": "Error", ...}
ErrorRow == [week |-> <<Word>>, harvest_week |-> <<Word>>]

\* a direct call compute_clone_demand_grouped(past_weeks)
call_compute(past_weeks) ==
    /\ LET g == compute_clone_demand_grouped(records, today, past_weeks)
       IN  resp' = Response("compute_clone_demand_grouped",
                            IF g.ok THEN 200 ELSE 500, g.out, g.calc,
                            today, past_weeks)
    /\ UNCHANGED <<records, nextId, today, advIn, staff>>
    /\ conn' = "closed"
    /\ UNCHANGED <<procs, environ>>

\* GET /clones/analytics: the default past_weeks = 3; an exception is
\* caught and shown as an error row
clones_analytics ==
    /\ LET g == compute_clone_demand_grouped(records, today, 3)
       IN  resp' = Response("clones_analytics", 200,
                            IF g.ok THEN g.out ELSE <<ErrorRow>>, g.calc,
                            today, 3)
    /\ UNCHANGED <<records, nextId, today, advIn, staff>>
    /\ conn' = "closed"
    /\ UNCHANGED <<procs, environ>>

\* GET /clones/download.csv: the default past_weeks = 3; an exception
\* propagates
clones_download ==
    /\ LET g == compute_clone_demand_grouped(records, today, 3)
       IN  resp' = Response("clones_download",
                            IF g.ok THEN 200 ELSE 500, g.out, g.calc,
                            today, 3)
    /\ UNCHANGED <<records, nextId, today, advIn, staff>>
    /\ conn' = "closed"
    /\ UNCHANGED <<procs, environ>>

----------------------------------------------------------------------------
(* Advisor: the local heuristic.  Notes are sequences of characters.  The  *)
(* en dashes and bullets of the source strings are written "-" and "*".    *)

UpperChars == <<"A", "B", "C", "D", "E", "F", "G", "H", "I", "J", "K", "L", "M", "N", "O", "P", "Q", "R", "S", "T", "U", "V", "W", "X", "Y", "Z">>
LowerChars == <<"a", "b", "c", "d", "e", "f", "g", "h", "i", "j", "k", "l", "m", "n", "o", "p", "q", "r", "s", "t", "u", "v", "w", "x", "y", "z">>

lower_char(c) ==
    IF \E i \in 1..Len(UpperChars) : UpperChars[i] = c
    THEN LowerChars[CHOOSE i \in 1..Len(UpperChars) : UpperChars[i] = c]
    ELSE c

\* the text as written, no letter changed
lower_unchanged(s) == s

\* str.lower()
lower(s) == [i \in 1..Len(s) |-> lower_char(s[i])]

\* sub in s
contains(sub, s) ==
    \E i \in 1..(Len(s) - Len(sub) + 1) :
        SubSeq(s, i, i + Len(sub) - 1) = sub

\* str.capitalize() of the program names
capitalize(program) ==
    CASE program = "athena" -> "Athena"
      [] program = "salts"  -> "Salts"
      [] program = "other"  -> "Other"

AthenaTable == <<
    "Transplant support, low EC 1.6-1.8, silica light, no heavy PK.",
    "Ramp EC 1.8-2.1, maintain Ca/Mg, monitor runoff.",
    "EC 2.0-2.2; maintain VPD 1.1-1.3; early defoliate if dense.",
    "Hold EC ~2.2; introduce slight PK bump; watch tip burn.",
    "PK push begins; EC 2.2-2.4; ensure drain 10-20%.",
    "Peak PK; watch K/Ca balance; keep pH 5.7-6.1 (hydro) / 5.9-6.3 (coco).",
    "Begin taper 5-10%; reduce N; maintain K and Mg.",
    "Further taper; prep flush strategy; IPM only if needed.",
    "Flush or low EC; finishers only; reduce humidity to avoid mold.",
    "Harvest window; keep temps lower at night; darkness optional." >>

SaltsTable == <<
    "Low EC start 1.6-1.8; Ca/Mg 150-200 ppm; silica minimal.",
    "EC 1.9-2.1; keep N:P:K balanced; record runoff.",
    "EC 2.0-2.2; watch deficiency; increase airflow.",
    "Hold EC ~2.2; slight PK; ensure distribution.",
    "Increase PK; EC 2.2-2.4; avoid overwatering.",
    "Peak PK; ensure sulfur for terps; monitor leaves.",
    "Start taper 5-10%; lower N; keep K steady.",
    "Taper more; watch fade; avoid late N spikes.",
    "Flush/finishers; target runoff EC ~ input.",
    "Harvest; avoid foliar; prep dry room." >>

TipBurnLine == "* Tip burn: drop EC by 0.2-0.3, increase runoff to ~20%."
PaleLine    == "* Pale leaves: check N & Mg, add 30-50 ppm Mg."
LockoutLine == "* Lockout: reset low EC feed; verify pH/runoff."

IndexError == "IndexError"

\* table[i] of a Python list: negative indices count from the end, an
\* index outside the list raises IndexError
list_index(table, i) ==
    IF i >= 0 /\ i < Len(table) THEN table[i + 1]
    ELSE IF i < 0 /\ i >= 0 - Len(table) THEN table[Len(table) + i + 1]
    ELSE IndexError

\* the upper clamp left out: w = max(1, int(week or 1))
advice_week_no_min(week) ==
    LET w0 == IF week = 0 THEN 1 ELSE week
    IN  IF w0 > 1 THEN w0 ELSE 1

\* w = max(1, min(int(week or 1), 10))
advice_week(week) ==
    LET w0 == IF week = 0 THEN 1 ELSE week
        w1 == IF w0 < 10 THEN w0 ELSE 10
    IN  IF w1 > 1 THEN w1 ELSE 1

\* the pale line added once per keyword found: one "if" for "pale" and
\* another for "yellow"
advice_extra_per_keyword(notes) ==
    IF Len(notes) = 0 THEN <<>>
    ELSE LET n == lower(notes)
         IN  (IF contains(<<"b","u","r","n">>, n)
              THEN <<TipBurnLine>> ELSE <<>>)
          \o (IF contains(<<"p","a","l","e">>, n)
              THEN <<PaleLine>> ELSE <<>>)
          \o (IF contains(<<"y","e","l","l","o","w">>, n)
              THEN <<PaleLine>> ELSE <<>>)
          \o (IF contains(<<"l","o","c","k","o","u","t">>, n)
                 \/ contains(<<"h","i","g","h"," ","e","c">>, n)
              THEN <<LockoutLine>> ELSE <<>>)

\* extra: the lines appended for the keywords found in notes.lower()
advice_extra(notes) ==
    IF Len(notes) = 0 THEN <<>>
    ELSE LET n == lower(notes)
         IN  (IF contains(<<"b","u","r","n">>, n)
              THEN <<TipBurnLine>> ELSE <<>>)
          \o (IF contains(<<"p","a","l","e">>, n)
                 \/ contains(<<"y","e","l","l","o","w">>, n)
              THEN <<PaleLine>> ELSE <<>>)
          \o (IF contains(<<"l","o","c","k","o","u","t">>, n)
                 \/ contains(<<"h","i","g","h"," ","e","c">>, n)
              THEN <<LockoutLine>> ELSE <<>>)

Digits == <<"0", "1", "2", "3", "4", "5", "6", "7", "8", "9">>

\* str(n) of a natural number below 100, digit by digit
str(n) ==
    IF n < 10 THEN <<Digits[n + 1]>>
    ELSE <<Digits[(n \div 10) + 1], Digits[(n % 10) + 1]>>

\* the tip alone returned, the "Program: ... | Week ..." line left out
advice_text_tip_only(program, w, tip, extra) ==
    <<<<tip>>>> \o [i \in 1..Len(extra) |-> <<extra[i]>>]

\* f"Program: {program.capitalize()} | Week {w}\n{tip}{extra}" as its
\* lines, each line the sequence of the pieces it is put together from
advice_text(program, w, tip, extra) ==
    << <<"Program: ", capitalize(program), " | Week ">> \o str(w) >>
       \o <<<<tip>>>> \o [i \in 1..Len(extra) |-> <<extra[i]>>]

\* local_heuristic_advice(program, week, notes): the three parts of the
\* returned text "Program: {program} | Week {w}\n{tip}{extra}", and the
\* text itself
local_heuristic_advice(program, week, notes) ==
    LET w     == advice_week(week)
        table == IF program = "athena" THEN AthenaTable ELSE SaltsTable
        tip   == list_index(table, w - 1)
        extra == advice_extra(notes)
    IN  [program |-> capitalize(program), week |-> w,
         tip |-> tip, extra |-> extra,
         text |-> advice_text(program, w, tip, extra)]

\* largest magnitude of the week argument
MaxWeekArg == 12

Programs == {"athena", "salts", "other"}
WeekArgs == (0 - MaxWeekArg)..MaxWeekArg
NotesTexts ==
    { <<>>,
      <<"o", "k">>,
      <<"b", "u", "r", "n">>,
      <<"T", "i", "p", " ", "B", "u", "r", "n">>,
      <<"B", "U", "R", "N">>,
      <<"p", "a", "l", "e">>,
      <<"Y", "e", "l", "l", "o", "w">>,
      <<"l", "o", "c", "k", "o", "u", "t">>,
      <<"h", "i", "g", "h", " ", "e", "c">>,
      <<"b", "u", "r", "n", " ", "B", "U", "R", "N">>,
      <<"p", "a", "l", "e", " ", "y", "e", "l", "l", "o", "w">>,
      <<"b", "u", "r", "n", " ", "p", "a", "l", "e", " ", "l", "o", "c", "k", "o", "u", "t">> }

AdvInputs == [program : Programs, week : WeekArgs, notes : NotesTexts]
NoAdvIn == [program |-> "athena", week |-> 1, notes |-> <<>>]

\* a call local_heuristic_advice(program, week, notes) on the drawn input
call_advice ==
    /\ LET a == local_heuristic_advice(advIn.program, advIn.week, advIn.notes)
       IN  resp' = Response("local_heuristic_advice",
                            IF a.tip = IndexError THEN 500 ELSE 200,
                            <<a>>, <<>>, None, NoArg)
    /\ UNCHANGED <<records, nextId, today, advIn, staff, conn>>
    /\ UNCHANGED <<procs, environ>>

----------------------------------------------------------------------------
(* POST /advisor : the static advice, replaced by an external answer *)

\* os.environ.get('OPENAI_API_KEY'): unset, set to the empty string, set
ApiKeys == { <<>>, <<"">>, <<"sk-test">> }

\* what client.responses.create(...) does: it returns a response with an
\* output_text, or it raises
ExternalCalls ==
    { [kind |-> "ok",    text |-> << <<"Lower EC to 2.0.">> >>,  err |-> ""],
      [kind |-> "ok",    text |-> << <<>>, <<"Lower EC to 2.0.">>, <<>> >>,
       err |-> ""],
      [kind |-> "raise", text |-> <<>>, err |-> "Connection error."] }

\* the week field of the form: an integer literal, '', or other text
WeekTexts == {"int", "empty", "word"}

\* str.strip() of a text given as lines: the blank lines at both ends go
RECURSIVE lstrip_lines(_)
lstrip_lines(t) ==
    IF Len(t) > 0 /\ Head(t) = <<>> THEN lstrip_lines(Tail(t)) ELSE t

strip_lines(t) == Reverse(lstrip_lines(Reverse(lstrip_lines(t))))

\* the external call made without try/except: what it raises leaves the
\* handler
openai_answer_uncaught(answer, available, key, call) ==
    IF available /\ Len(key) = 1 /\ key[1] # ""
    THEN IF call.kind = "ok"
         THEN [raised |-> FALSE, answer |-> strip_lines(call.text)]
         ELSE [raised |-> TRUE, answer |-> answer]
    ELSE [raised |-> FALSE, answer |-> answer]

\* if OPENAI_AVAILABLE and os.environ.get('OPENAI_API_KEY'): try ... except
openai_answer(answer, available, key, call) ==
    IF available /\ Len(key) = 1 /\ key[1] # ""
    THEN IF call.kind = "ok"
         THEN [raised |-> FALSE, answer |-> strip_lines(call.text)]
         ELSE [raised |-> FALSE,
               answer |-> answer \o << <<>>,
                             <<"(OpenAI fallback: ", call.err, ")">> >>]
    ELSE [raised |-> FALSE, answer |-> answer]

\* /advisor: a GET renders the page without an answer; a POST reads
\* program, week and notes from the form (int() of a week that is not an
\* integer literal raises ValueError), computes the static advice and asks
\* the external service when the library was imported and a key is set
advisor(method, week_text, available, key, call) ==
    /\ LET arg == [method |-> method, week |-> week_text,
                   available |-> available, key |-> key, call |-> call]
       IN  IF method = "GET"
           THEN resp' = Response("advisor", 200, NoRows, <<>>, None, arg)
           ELSE IF week_text = "word"
           THEN resp' = Response("advisor", 500, NoRows, <<>>, None, arg)
           ELSE LET week == IF week_text = "int" THEN advIn.week ELSE 1
                    a    == local_heuristic_advice(advIn.program, week,
                                                   advIn.notes)
                    o    == openai_answer(a.text, available, key, call)
                IN  IF a.tip = IndexError \/ o.raised
                    THEN resp' = Response("advisor", 500, NoRows, <<a>>,
                                          None, arg)
                    ELSE resp' = Response("advisor", 200, <<o.answer>>,
                                          <<a>>, None, arg)
    /\ UNCHANGED <<records, nextId, today, advIn, staff>>
    /\ conn' = "closed"
    /\ UNCHANGED <<procs, environ>>

----------------------------------------------------------------------------
(* The workers, tasks and daily tables.  Names, titles, rooms, actions and *)
(* notes are sequences of characters.  conn is what became of the          *)
(* connection the last request opened with get_db(): "closed" when the     *)
(* handler closed it before the request ended, "open" when it did not.     *)

\* str.strip(): the blanks at both ends go
RECURSIVE lstrip(_)
lstrip(s) == IF Len(s) > 0 /\ Head(s) = " " THEN lstrip(Tail(s)) ELSE s

strip(s) == Reverse(lstrip(Reverse(lstrip(s))))

\* which statement of the request sqlite3 fails with an exception (a
\* locked or unreadable database): none, the INSERT/UPDATE/DELETE, or a
\* SELECT
Failures == {"none", "write", "read"}

Methods == {"GET", "POST"}

Ann       == <<"A", "n", "n">>
AnnPadded == <<" ", "A", "n", "n", " ">>
Bob       == <<"B", "o", "b">>
Blank     == <<" ", " ">>
NameTexts == {Ann, AnnPadded, Bob, Blank, <<>>}

\* every POST inserts, whatever the name
workers_inserts_any(method, name) == method = "POST"

\* if request.method == 'POST': name = ....strip(); if name:
workers_inserts(method, name) == method = "POST" /\ strip(name) # <<>>

\* /workers: the INSERT sits in try/except-pass, the SELECT and the close
\* after it do not
workers_route(method, name, fail) ==
    /\ workers_inserts(method, name) => Len(workers) < MaxWorkers
    /\ workers' =
          IF workers_inserts(method, name) /\ fail # "write"
          THEN Append(workers, [id |-> Len(workers) + 1, name |-> strip(name)])
          ELSE workers
    /\ IF fail = "read"
       THEN /\ resp' = Response("workers", 500, NoRows, <<>>, None,
                                [method |-> method,
                                 name |-> IF method = "POST" THEN name
                                          ELSE <<>>])
            /\ conn' = "open"
       ELSE /\ resp' = Response("workers", 200, Reverse(workers'), <<>>, None,
                                [method |-> method,
                                 name |-> IF method = "POST" THEN name
                                          ELSE <<>>])
            /\ conn' = "closed"
    /\ UNCHANGED <<records, nextId, today, advIn, tasks, nextTaskId, daily>>
    /\ UNCHANGED <<procs, environ>>

\* a task form: title and due_date as typed, assignee_id the number in
\* the field (no entry for ''), status the field's value (no entry when
\* the field is not sent)
TaskForm(title, assignee_id, due_date, status) ==
    [title |-> title, assignee_id |-> assignee_id, due_date |-> due_date,
     status |-> status]

TaskForms ==
    { TaskForm(<<" ", "t">>, <<>>, <<>>, <<>>),
      TaskForm(<<"t">>, <<1>>, <<" ">>, <<"doing">>),
      TaskForm(<<"t">>, <<2>>, <<"2024-01-10">>, <<"done">>),
      TaskForm(<<>>, <<>>, <<>>, <<"archived">>) }

\* the four columns a task form is stored as: title stripped,
\* assignee_id or None, due_date stripped or None, status as sent and
\* 'pending' when not sent
task_columns(f) ==
    [title |-> strip(f.title),
     assignee_id |-> f.assignee_id,
     due_date |-> IF f.due_date = <<>> \/ strip(f.due_date) = <<>>
                  THEN <<>> ELSE f.due_date,
     status |-> IF f.status = <<>> THEN "pending" ELSE f.status[1]]

\* the tasks page: every task with the name of its assignee (LEFT JOIN)
tasks_rows ==
    [i \in 1..Len(tasks') |->
        LET t == tasks'[Len(tasks') + 1 - i]
        IN  [id |-> t.id, status |-> t.status,
             assignee_name |->
                IF t.assignee_id # <<>>
                   /\ \E k \in 1..Len(workers) :
                         workers[k].id = t.assignee_id[1]
                THEN <<workers[t.assignee_id[1]].name>> ELSE <<>>]]

\* /tasks: INSERT, commit, two SELECTs and the close, none of them in a
\* try
tasks_route(method, f, fail) ==
    /\ method = "POST" => nextTaskId <= MaxTaskId
    /\ IF method = "POST" /\ fail # "write"
       THEN /\ tasks' = Append(tasks,
                   [id |-> nextTaskId] @@ task_columns(f))
            /\ nextTaskId' = nextTaskId + 1
       ELSE UNCHANGED <<tasks, nextTaskId>>
    /\ IF fail = "none" \/ (fail = "write" /\ method = "GET")
       THEN /\ resp' = Response("tasks", 200, tasks_rows, <<>>, None, NoArg)
            /\ conn' = "closed"
       ELSE /\ resp' = Response("tasks", 500, NoRows, <<>>, None, NoArg)
            /\ conn' = "open"
    /\ UNCHANGED <<records, nextId, today, advIn, workers, daily>>
    /\ UNCHANGED <<procs, environ>>

HasTask(tid) == \E i \in 1..Len(tasks) : tasks[i].id = tid

\* /tasks/edit/<tid>: the SELECTs, the UPDATE and the three closes
edit_task(tid, method, f, fail) ==
    /\ IF fail = "read"
       THEN /\ resp' = Response("edit_task", 500, NoRows, <<>>, None, NoArg)
            /\ conn' = "open"
            /\ UNCHANGED tasks
       ELSE IF ~HasTask(tid)
       THEN /\ resp' = Response("edit_task", 302, NoRows, <<>>, None, NoArg)
            /\ conn' = "closed"
            /\ UNCHANGED tasks
       ELSE IF method = "GET"
       THEN /\ resp' = Response("edit_task", 200, NoRows, <<>>, None, NoArg)
            /\ conn' = "closed"
            /\ UNCHANGED tasks
       ELSE IF fail = "write"
       THEN /\ resp' = Response("edit_task", 500, NoRows, <<>>, None, NoArg)
            /\ conn' = "open"
            /\ UNCHANGED tasks
       ELSE /\ tasks' = [i \in 1..Len(tasks) |->
                   IF tasks[i].id = tid
                   THEN [id |-> tid] @@ task_columns(f)
                   ELSE tasks[i]]
            /\ resp' = Response("edit_task", 302, NoRows, <<>>, None, NoArg)
            /\ conn' = "closed"
    /\ UNCHANGED <<records, nextId, today, advIn, workers, nextTaskId, daily>>
    /\ UNCHANGED <<procs, environ>>

\* /tasks/delete/<tid>: DELETE and commit in a try, the close in its
\* finally
delete_task(tid, fail) ==
    /\ IF fail = "write"
       THEN /\ resp' = Response("delete_task", 500, NoRows, <<>>, None, NoArg)
            /\ UNCHANGED tasks
       ELSE /\ tasks' = SelectSeq(tasks, LAMBDA t : t.id # tid)
            /\ resp' = Response("delete_task", 302, NoRows, <<>>, None, NoArg)
    /\ conn' = "closed"
    /\ UNCHANGED <<records, nextId, today, advIn, workers, nextTaskId, daily>>
    /\ UNCHANGED <<procs, environ>>

\* a monitor form: date the sent text (no entry when the field is not
\* sent), room, action and note as typed
MonitorForm(date, room, action, note) ==
    [date |-> date, room |-> room, action |-> action, note |-> note]

MonitorForms ==
    { MonitorForm(<<>>, <<"R", "1">>, <<"w">>, <<>>),
      MonitorForm(<<Jan01>>, <<" ", "R", "1">>, <<"w", " ">>, <<" ", "x">>),
      MonitorForm(<<>>, Blank, <<"w">>, <<"x">>),
      MonitorForm(<<Jan01>>, <<"R", "1">>, <<>>, <<"x">>) }

\* a row is inserted when either field is filled
monitor_inserts_either(method, f) ==
    method = "POST" /\ (strip(f.room) # <<>> \/ strip(f.action) # <<>>)

\* if request.method == 'POST': ...; if room and action:
monitor_inserts(method, f) ==
    method = "POST" /\ strip(f.room) # <<>> /\ strip(f.action) # <<>>

\* /monitor: the INSERT, the SELECT of the newest 200 rows and the close,
\* none of them in a try
monitor(method, f, fail) ==
    /\ monitor_inserts(method, f) => Len(daily) < MaxDaily
    /\ daily' =
          IF monitor_inserts(method, f) /\ fail # "write"
          THEN Append(daily,
                  [id |-> Len(daily) + 1,
                   date |-> IF f.date = <<>> THEN isoformat(today)
                            ELSE f.date[1],
                   room |-> strip(f.room), action |-> strip(f.action),
                   note |-> strip(f.note)])
          ELSE daily
    /\ IF fail = "read" \/ (fail = "write" /\ monitor_inserts(method, f))
       THEN /\ resp' = Response("monitor", 500, NoRows, <<>>, None,
                                [method |-> method,
                                 form |-> IF method = "POST" THEN <<f>>
                                          ELSE <<>>])
            /\ conn' = "open"
       ELSE /\ resp' = Response("monitor", 200, Reverse(daily'), <<>>,
                                IF method = "POST" /\ f.date = <<>>
                                THEN today ELSE None,
                                [method |-> method,
                                 form |-> IF method = "POST" THEN <<f>>
                                          ELSE <<>>])
            /\ conn' = "closed"
    /\ UNCHANGED <<records, nextId, today, advIn, workers, tasks, nextTaskId>>
    /\ UNCHANGED <<procs, environ>>

\* /db_check of app_web_prod.py: conn.close() is the last statement of
\* the try; the except branch answers 500 without it
db_check(fail) ==
    /\ IF fail = "read"
       THEN /\ resp' = Response("db_check", 500, NoRows, <<>>, None, NoArg)
            /\ conn' = "open"
       ELSE /\ resp' = Response("db_check", 200, <<Len(records)>>, <<>>,
                                None, NoArg)
            /\ conn' = "closed"
    /\ UNCHANGED <<records, nextId, today, advIn, staff>>
    /\ UNCHANGED <<procs, environ>>

\* the file field of an upload: no file, or a file name and the database
\* the file holds
UploadedDb ==
    [records |-> <<>>, nextId |-> 1, workers |-> <<>>, tasks |-> <<>>,
     nextTaskId |-> 1,
     daily |-> <<[id |-> 1, date |-> Jan01, room |-> <<"R", "9">>,
                  action |-> <<"w">>, note |-> <<>>]>>]

EmptyDb ==
    [records |-> <<>>, nextId |-> 1, workers |-> <<>>, tasks |-> <<>>,
     nextTaskId |-> 1, daily |-> <<>>]

UploadFiles ==
    { <<>>,
      <<[filename |-> <<"a", ".", "t", "x", "t">>, data |-> EmptyDb]>>,
      <<[filename |-> <<"a", ".", "D", "B">>, data |-> EmptyDb]>>,
      <<[filename |-> <<"b", ".", "d", "b">>, data |-> UploadedDb]>> }

\* str.endswith
endswith(s, suffix) ==
    /\ Len(s) >= Len(suffix)
    /\ SubSeq(s, Len(s) - Len(suffix) + 1, Len(s)) = suffix

\* the query string of a request: no key parameter, or the value sent
QueryKeys == { <<>>, <<"guess">>, <<"s3cret">> }

\* /db/upload: a POST with a file whose name ends in ".db" (in any letter
\* case) writes the file's bytes over the database file; request.args is
\* not read
upload_db(method, file, key) ==
    /\ LET accepted ==
              /\ method = "POST"
              /\ file # <<>>
              /\ endswith(lower(file[1].filename), <<".", "d", "b">>)
       IN  /\ IF accepted
              THEN /\ records' = file[1].data.records
                   /\ nextId' = file[1].data.nextId
                   /\ workers' = file[1].data.workers
                   /\ tasks' = file[1].data.tasks
                   /\ nextTaskId' = file[1].data.nextTaskId
                   /\ daily' = file[1].data.daily
              ELSE UNCHANGED <<records, nextId, staff>>
           /\ resp' = Response("upload_db", 200, NoRows, <<>>, None,
                               [method |-> method, key |-> key,
                                msg |-> IF method = "GET" THEN "None"
                                        ELSE IF accepted THEN "Uploaded."
                                        ELSE "Invalid file."])
    /\ conn' = "closed"
    /\ UNCHANGED <<today, advIn>>
    /\ UNCHANGED <<procs, environ>>

\* /download_db of app_web_prod.py: send_file(DB_PATH) answers with the
\* bytes of the database file, or with status 500 and the error when
\* send_file raises; request.args is not read
download_db(key, fail) ==
    /\ IF fail = "read"
       THEN resp' = Response("download_db", 500, NoRows, <<>>, None,
                             [method |-> "GET", key |-> key, msg |-> "error"])
       ELSE resp' = Response("download_db", 200,
                             <<[records |-> records, nextId |-> nextId,
                                workers |-> workers, tasks |-> tasks,
                                nextTaskId |-> nextTaskId, daily |-> daily]>>,
                             <<>>, None,
                             [method |-> "GET", key |-> key,
                              msg |-> "harvest.db"])
    /\ UNCHANGED <<records, nextId, today, advIn, staff, conn>>
    /\ UNCHANGED <<procs, environ>>

----------------------------------------------------------------------------
(* Requests served at the same time.  Every request has its own            *)
(* connection; SQLite runs one statement of one connection at a time, and  *)
(* a SELECT holds no lock once it has returned.  edit_record and           *)
(* toggle_planned are a SELECT followed by an UPDATE: a statement of       *)
(* another request can run between the two.  procs[p] is the position of   *)
(* request p in its handler, with the locals it holds.                     *)

\* os.environ and the files that exist, when nothing is set and no file
\* exists
NoEnviron == [DB_PATH |-> <<>>, DB_DIR |-> <<>>, DISK_PATH |-> <<>>, fs |-> {}]

Procs == 1..MaxProcs

\* the name of request p, as the argument of its response
ProcName(p) == Digits[p + 1]

Idle == [pc |-> "idle", rid |-> 0, form |-> <<>>, row |-> <<>>, new_val |-> 0]

NoProcs == [p \in Procs |-> Idle]

\* SELECT ... FROM records WHERE id=? : the row, when there is one
row_by_id(recs, rid) ==
    CHOOSE r \in {recs[i] : i \in 1..Len(recs)} : r.id = rid

\* only room and plants are written, strain and flower_date are left
edit_update_row_two_columns(r, f) ==
    [r EXCEPT !.room = f.room, !.plants = IntOf(f.plants)]

\* UPDATE records SET room=?, plants=?, strain=?, flower_date=? on one row
edit_update_row(r, f) ==
    [r EXCEPT !.room = f.room, !.plants = IntOf(f.plants),
              !.strain = f.strain, !.flower_date = f.flower_date]

\* a row is written also when no row has the id (INSERT OR REPLACE)
edit_update_or_insert(recs, rid, f) ==
    IF HasId(recs, rid)
    THEN [i \in 1..Len(recs) |->
             IF recs[i].id = rid THEN edit_update_row(recs[i], f)
             ELSE recs[i]]
    ELSE Append(recs, [id |-> rid, room |-> f.room,
                       plants |-> IntOf(f.plants), strain |-> f.strain,
                       flower_date |-> f.flower_date, planned |-> 0])

\* UPDATE records SET ... WHERE id=? : the rows with the id, none when no
\* row has it
edit_update(recs, rid, f) ==
    [i \in 1..Len(recs) |->
        IF recs[i].id = rid THEN edit_update_row(recs[i], f) ELSE recs[i]]

\* edit_record, POST, up to its UPDATE: the SELECT of the row on a first
\* connection, the redirect when there is none, the form fields read
edit_record_select(p, rid, f) ==
    /\ procs[p].pc = "idle"
    /\ IF ~HasId(records, rid)
       THEN /\ resp' = Response("edit_record", 302, NoRows, <<>>, None, ProcName(p))
            /\ procs' = [procs EXCEPT ![p] =
                  [pc |-> "edit_no_row", rid |-> rid, form |-> <<f>>,
                   row |-> <<>>, new_val |-> 0]]
       ELSE IF IntRaises(f.plants)
       THEN /\ resp' = Response("edit_record", 500, NoRows, <<>>, None, ProcName(p))
            /\ procs' = [procs EXCEPT ![p] =
                  [pc |-> "edit_raised", rid |-> rid, form |-> <<f>>,
                   row |-> <<row_by_id(records, rid)>>, new_val |-> 0]]
       ELSE /\ procs' = [procs EXCEPT ![p] =
                  [pc |-> "edit_update", rid |-> rid, form |-> <<f>>,
                   row |-> <<row_by_id(records, rid)>>, new_val |-> 0]]
            /\ UNCHANGED resp
    /\ conn' = "closed"
    /\ UNCHANGED <<records, nextId, today, advIn, staff, environ>>

\* edit_record, POST, from its UPDATE on: the UPDATE and commit on a
\* second connection, the redirect
edit_record_update(p) ==
    /\ procs[p].pc = "edit_update"
    /\ records' = edit_update(records, procs[p].rid, procs[p].form[1])
    /\ resp' = Response("edit_record", 302, NoRows, <<>>, None, ProcName(p))
    /\ procs' = [procs EXCEPT ![p].pc = "edited"]
    /\ conn' = "closed"
    /\ UNCHANGED <<nextId, today, advIn, staff, environ>>

\* toggle_planned up to its UPDATE: the SELECT of the flag and new_val
toggle_planned_select(p, rid) ==
    /\ procs[p].pc = "idle"
    /\ IF ~HasId(records, rid)
       THEN /\ resp' = Response("toggle_planned", 302, NoRows, <<>>, None, ProcName(p))
            /\ procs' = [procs EXCEPT ![p] =
                  [pc |-> "toggle_no_row", rid |-> rid, form |-> <<>>,
                   row |-> <<>>, new_val |-> 0]]
            /\ conn' = "closed"
       ELSE /\ LET row == row_by_id(records, rid)
               IN  procs' = [procs EXCEPT ![p] =
                      [pc |-> "toggle_update", rid |-> rid, form |-> <<>>,
                       row |-> <<>>,
                       new_val |-> IF row.planned = 1 THEN 0 ELSE 1]]
            /\ UNCHANGED <<resp, conn>>
    /\ UNCHANGED <<records, nextId, today, advIn, staff, environ>>

\* toggle_planned from its UPDATE on: UPDATE records SET planned=new_val
\* WHERE id=?, the commit, the close and the redirect
toggle_planned_update(p) ==
    /\ procs[p].pc = "toggle_update"
    /\ records' = [i \in 1..Len(records) |->
          IF records[i].id = procs[p].rid
          THEN [records[i] EXCEPT !.planned = procs[p].new_val]
          ELSE records[i]]
    /\ resp' = Response("toggle_planned", 302, NoRows, <<>>, None, ProcName(p))
    /\ procs' = [procs EXCEPT ![p].pc = "toggled"]
    /\ conn' = "closed"
    /\ UNCHANGED <<nextId, today, advIn, staff, environ>>

----------------------------------------------------------------------------
(* Specifications *)

PastWeeksArgs == {-1, 0, 10}

NoResponse == Response("none", 0, NoRows, <<>>, None, NoArg)

Init ==
    /\ records = <<>>
    /\ nextId = 1
    /\ today \in Todays
    /\ resp = NoResponse
    /\ advIn = NoAdvIn
    /\ workers = <<>>
    /\ tasks = <<>>
    /\ nextTaskId = 1
    /\ daily = <<>>
    /\ conn = "none"
    /\ procs = NoProcs
    /\ environ = NoEnviron

Next ==
    \/ \E f \in Forms :
          add_record(f.room, f.plants, f.strain, f.flower_date)
    \/ \E rid \in 1..MaxId, f \in Forms :
          edit_record(rid, f.room, f.plants, f.strain, f.flower_date)
    \/ \E rid \in 1..MaxId : delete_record(rid)
    \/ \E future \in FutureArgs : index(future)
    \/ \E past_weeks \in PastWeeksArgs : call_compute(past_weeks)
    \/ clones_analytics
    \/ clones_download

Spec == Init /\ [][Next]_vars

\* the advice lookup as a pure function of its drawn arguments
InitAdvice ==
    /\ records = <<>>
    /\ nextId = 1
    /\ today = Today0
    /\ resp = NoResponse
    /\ advIn \in AdvInputs
    /\ workers = <<>>
    /\ tasks = <<>>
    /\ nextTaskId = 1
    /\ daily = <<>>
    /\ conn = "none"
    /\ procs = NoProcs
    /\ environ = NoEnviron

NextAdvice == call_advice

SpecAdvice == InitAdvice /\ [][NextAdvice]_vars

\* the advisor page: a form is drawn, and requests are served with the
\* library imported or not, the key set or not, the external call
\* succeeding or raising
AdvisorInputs ==
    [program : {"athena", "salts"}, week : {0, 1, 11},
     notes : { <<>>, <<"b", "u", "r", "n">>,
               <<"h", "i", "g", "h", " ", "e", "c">> }]

InitAdvisor ==
    /\ records = <<>>
    /\ nextId = 1
    /\ today = Today0
    /\ resp = NoResponse
    /\ advIn \in AdvisorInputs
    /\ workers = <<>>
    /\ tasks = <<>>
    /\ nextTaskId = 1
    /\ daily = <<>>
    /\ conn = "none"
    /\ procs = NoProcs
    /\ environ = NoEnviron

NextAdvisor ==
    \E method \in {"GET", "POST"}, week_text \in WeekTexts,
       available \in BOOLEAN, key \in ApiKeys, call \in ExternalCalls :
       advisor(method, week_text, available, key, call)

SpecAdvisor == InitAdvisor /\ [][NextAdvisor]_vars

\* the records table alone: rows added, edited, toggled and deleted
AddForms ==
    { Form("F1", IntText(10), "OG", Jan01),
      Form("F2", EmptyText, "GSC", Junk),
      Form("F1", WordText, "OG", Jan01) }

EditForms ==
    { Form("F3", IntText(5), "Kush", Old),
      Form("F1", EmptyText, "OG", Jan03),
      Form("F3", WordText, "Kush", Old) }

InitCrud ==
    /\ records = <<>>
    /\ nextId = 1
    /\ today = Today0
    /\ resp = NoResponse
    /\ advIn = NoAdvIn
    /\ workers = <<>>
    /\ tasks = <<>>
    /\ nextTaskId = 1
    /\ daily = <<>>
    /\ conn = "none"
    /\ procs = NoProcs
    /\ environ = NoEnviron

NextCrud ==
    \/ \E f \in AddForms :
          add_record(f.room, f.plants, f.strain, f.flower_date)
    \/ \E rid \in 1..MaxId, f \in EditForms :
          edit_record(rid, f.room, f.plants, f.strain, f.flower_date)
    \/ \E rid \in 1..MaxId : delete_record(rid)
    \/ \E rid \in 1..MaxId : toggle_planned(rid)

SpecCrud == InitCrud /\ [][NextCrud]_vars

\* edits and toggles served at the same time, beside additions and
\* deletions
RaceAddForms == { Form("F1", IntText(10), "OG", Jan01) }

InitRace ==
    /\ records = <<>>
    /\ nextId = 1
    /\ today = Today0
    /\ resp = NoResponse
    /\ advIn = NoAdvIn
    /\ workers = <<>>
    /\ tasks = <<>>
    /\ nextTaskId = 1
    /\ daily = <<>>
    /\ conn = "none"
    /\ procs = NoProcs
    /\ environ = NoEnviron

NextRace ==
    \/ \E f \in RaceAddForms :
          add_record(f.room, f.plants, f.strain, f.flower_date)
    \/ \E rid \in 1..MaxId : delete_record(rid)
    \/ \E p \in Procs, rid \in 1..MaxId, f \in EditForms :
          edit_record_select(p, rid, f)
    \/ \E p \in Procs : edit_record_update(p)
    \/ \E p \in Procs, rid \in 1..MaxId : toggle_planned_select(p, rid)
    \/ \E p \in Procs : toggle_planned_update(p)

SpecRace == InitRace /\ [][NextRace]_vars

\* the workers and tasks pages, beside requests to the monitor, record,
\* clone and advisor pages that add no row
InitStaff ==
    /\ records = <<>>
    /\ nextId = 1
    /\ today = Today0
    /\ resp = NoResponse
    /\ advIn = NoAdvIn
    /\ workers = <<>>
    /\ tasks = <<>>
    /\ nextTaskId = 1
    /\ daily = <<>>
    /\ conn = "none"
    /\ procs = NoProcs
    /\ environ = NoEnviron

NextStaff ==
    \/ \E method \in Methods, name \in NameTexts, fail \in Failures :
          workers_route(method, name, fail)
    \/ \E method \in Methods, f \in TaskForms, fail \in Failures :
          tasks_route(method, f, fail)
    \/ \E tid \in 1..MaxTaskId, method \in Methods, f \in TaskForms,
          fail \in Failures : edit_task(tid, method, f, fail)
    \/ \E tid \in 1..MaxTaskId, fail \in Failures : delete_task(tid, fail)
    \/ \E fail \in Failures : db_check(fail)
    \/ \E f \in MonitorForms, fail \in Failures : monitor("GET", f, fail)
    \/ \E future \in FutureArgs : index(future)
    \/ \E rid \in 1..MaxId : delete_record(rid)
    \/ clones_analytics
    \/ \E method \in Methods, key \in ApiKeys :
          advisor(method, "empty", TRUE, key,
                  [kind |-> "raise", text |-> <<>>, err |-> "Connection error."])

SpecStaff == InitStaff /\ [][NextStaff]_vars

\* the monitor page, beside the workers page
InitMonitor ==
    /\ records = <<>>
    /\ nextId = 1
    /\ today \in Todays
    /\ resp = NoResponse
    /\ advIn = NoAdvIn
    /\ workers = <<>>
    /\ tasks = <<>>
    /\ nextTaskId = 1
    /\ daily = <<>>
    /\ conn = "none"
    /\ procs = NoProcs
    /\ environ = NoEnviron

NextMonitor ==
    \/ \E method \in Methods, f \in MonitorForms, fail \in Failures :
          monitor(method, f, fail)
    \/ \E method \in Methods, name \in {Ann, Blank}, fail \in Failures :
          workers_route(method, name, fail)
    \/ \E method \in Methods, file \in UploadFiles, key \in QueryKeys :
          upload_db(method, file, key)
    \/ \E key \in QueryKeys, fail \in {"none", "read"} : download_db(key, fail)
    \/ \E fail \in Failures : db_check(fail)

SpecMonitor == InitMonitor /\ [][NextMonitor]_vars

----------------------------------------------------------------------------
(* Where the database file is: the module-level code of both programs *)

\* a path is the sequence of its components; Path(d) / name and
\* os.path.join(d, name) add a component, .parent drops the last one
join(d, name) == Append(d, name)
parent(path) == SubSeq(path, 1, Len(path) - 1)

BASE_DIR           == <<"app">>
render_data_dir    == <<"opt", "render", "project", "src", "data">>
local_side_by_side == join(BASE_DIR, "harvest.db")
default_dir        == join(BASE_DIR, "data")
default_path       == join(default_dir, "harvest.db")
LOCAL_DB_PATH      == <<"C:", "OKC Data", "harvest.db">>

\* an environment variable: <<>> when it is not set, <<v>> when it is
\* set to v; `if v:` and `v or ...` take a variable set to '' as not set
Truthy(v) == v # <<>> /\ v[1] # <<>>

\* the values the variables are set to
EnvDbPaths   == { <<>>, << <<>> >>, << <<"mnt", "x.db">> >> }
EnvDbDirs    == { <<>>, << <<"var", "d">> >> }
EnvDiskPaths == { <<>>, << <<"disk">> >> }

\* the files and directories that may exist when the program starts
FsPaths ==
    { <<"mnt", "x.db">>, <<"var", "d", "harvest.db">>,
      <<"disk", "harvest.db">>, render_data_dir,
      join(render_data_dir, "harvest.db"), local_side_by_side,
      LOCAL_DB_PATH }

\* what the start of a program settled: DB_PATH and DB_DIR
Location(path, dir) == [DB_PATH |-> path, DB_DIR |-> dir]

\* elif env_db_dir and (Path(env_db_dir) / "harvest.db").exists():
app_web_takes_db_dir(e) ==
    Truthy(e.DB_DIR) /\ join(e.DB_DIR[1], "harvest.db") \in e.fs

\* app_web.py, the if/elif chain run when the module is loaded
app_web_location(e) ==
    IF Truthy(e.DB_PATH)
    THEN Location(e.DB_PATH[1], parent(e.DB_PATH[1]))
    ELSE IF app_web_takes_db_dir(e)
    THEN Location(join(e.DB_DIR[1], "harvest.db"), e.DB_DIR[1])
    ELSE IF render_data_dir \in e.fs
    THEN Location(join(render_data_dir, "harvest.db"), render_data_dir)
    ELSE IF local_side_by_side \in e.fs
    THEN Location(local_side_by_side, BASE_DIR)
    ELSE Location(default_path, default_dir)

\* the directories the chain creates: DB_DIR.mkdir(parents=True,
\* exist_ok=True) in the render and the default branch
app_web_mkdir(e) ==
    IF Truthy(e.DB_PATH) \/ app_web_takes_db_dir(e) THEN {}
    ELSE IF render_data_dir \in e.fs THEN {render_data_dir}
    ELSE IF local_side_by_side \in e.fs THEN {}
    ELSE {default_dir}

\* loading app_web.py
app_web ==
    /\ resp' = Response("app_web", 0, NoRows, <<>>, None,
                        app_web_location(environ))
    /\ environ' = [environ EXCEPT !.fs = @ \cup app_web_mkdir(environ)]
    /\ UNCHANGED <<records, nextId, today, advIn, staff, conn, procs>>

\* app_web_prod.py: DB_DIR = os.getenv("DB_DIR") or
\* os.getenv("DISK_PATH") or "/opt/render/project/src/data"
app_web_prod_db_dir(e) ==
    IF Truthy(e.DB_DIR) THEN e.DB_DIR[1]
    ELSE IF Truthy(e.DISK_PATH) THEN e.DISK_PATH[1]
    ELSE render_data_dir

\* DB_PATH = os.getenv("DB_PATH") or os.path.join(DB_DIR, "harvest.db");
\* if not os.path.exists(DB_PATH) and os.path.exists(LOCAL_DB_PATH):
\*     DB_PATH = LOCAL_DB_PATH
app_web_prod_location(e) ==
    LET dir == app_web_prod_db_dir(e)
        path == IF Truthy(e.DB_PATH) THEN e.DB_PATH[1]
                ELSE join(dir, "harvest.db")
    IN  IF path \notin e.fs /\ LOCAL_DB_PATH \in e.fs
        THEN Location(LOCAL_DB_PATH, dir)
        ELSE Location(path, dir)

\* loading app_web_prod.py; Path(DB_DIR).mkdir(parents=True,
\* exist_ok=True) comes before DB_PATH is settled
app_web_prod ==
    /\ resp' = Response("app_web_prod", 0, NoRows, <<>>, None,
                        app_web_prod_location(environ))
    /\ environ' = [environ EXCEPT
                      !.fs = @ \cup {app_web_prod_db_dir(environ)}]
    /\ UNCHANGED <<records, nextId, today, advIn, staff, conn, procs>>

\* the programs started, one after the other or again, in an environment
\* and on a disk drawn at the start
InitLocation ==
    /\ records = <<>>
    /\ nextId = 1
    /\ today = Today0
    /\ resp = NoResponse
    /\ advIn = NoAdvIn
    /\ workers = <<>>
    /\ tasks = <<>>
    /\ nextTaskId = 1
    /\ daily = <<>>
    /\ conn = "none"
    /\ procs = NoProcs
    /\ environ \in [DB_PATH : EnvDbPaths, DB_DIR : EnvDbDirs,
                     DISK_PATH : EnvDiskPaths, fs : SUBSET FsPaths]

NextLocation ==
    \/ app_web
    \/ app_web_prod

SpecLocation == InitLocation /\ [][NextLocation]_vars

----------------------------------------------------------------------------
(* Properties *)

\* the date a text "YYYY-MM-DD" denotes, as an ordinal
TextOrd(t) == _ymd2ord(t[1].y, t[1].m, t[1].d)

Parses(r) == _parse_date_ymd(r.flower_date) # None
FlowerOrd(r) == _parse_date_ymd(r.flower_date)

IndexShown == resp.handler = "index" /\ resp.status = 200

CloneHandlers ==
    {"compute_clone_demand_grouped", "clones_analytics", "clones_download"}

\* C1: every record whose flower_date parses is listed by index with the
\* harvest date flower_date + 63 days (a listing restricted to future
\* harvests may leave the record out, but never shows another date), and
\* the harvest date compute_clone_demand_grouped works with for each
\* counted record is its flower date + 63 days.
C1_HarvestIsFlowerPlus63 ==
    /\ IndexShown =>
         /\ \A i \in 1..Len(resp.rows) :
               LET row == resp.rows[i]
               IN  Parses(row) =>
                     /\ Len(row.harvest) = 1
                     /\ TextOrd(row.harvest) = FlowerOrd(row) + 63
         /\ resp.arg = "0" =>
               \A i \in 1..Len(records) :
                  Parses(records[i]) =>
                     \E j \in 1..Len(resp.rows) :
                        /\ resp.rows[j].id = records[i].id
                        /\ resp.rows[j].flower_date = records[i].flower_date
    /\ (resp.handler \in CloneHandlers /\ resp.status = 200) =>
         \A i \in 1..Len(resp.calc) :
            resp.calc[i].harvest = resp.calc[i].flower + 63

\* an old record (flowering 2023-11-01, harvest long past) is listed with
\* the harvest date 2024-01-03
C1_Witness ==
    /\ IndexShown
    /\ \E i \in 1..Len(resp.rows) :
          /\ resp.rows[i].flower_date = Old
          /\ resp.rows[i].harvest = <<DateTok(2024, 1, 3)>>

\* C2: the days-remaining value index shows for a record with a parseable
\* flower_date is (flower_date + 63 days) - today, a signed number of days:
\* negative when the harvest date is before today, never clamped to 0.
C2_DaysRemainingSigned ==
    IndexShown =>
       \A i \in 1..Len(resp.rows) :
          LET row == resp.rows[i]
          IN  Parses(row) =>
                /\ row.days = <<FlowerOrd(row) + 63 - resp.today>>
                /\ (FlowerOrd(row) + 63 < resp.today => row.days[1] < 0)

\* a record whose harvest date has passed is listed with a negative value
C2_Witness ==
    /\ IndexShown
    /\ \E i \in 1..Len(resp.rows) :
          /\ Parses(resp.rows[i])
          /\ Len(resp.rows[i].days) = 1
          /\ resp.rows[i].days[1] < 0

\* the week number an index row shows: the rows carry none
WeekShown(row) == IF "week" \in DOMAIN row THEN <<row.week>> ELSE <<>>

Clamp(lo, hi, x) == IF x < lo THEN lo ELSE IF x > hi THEN hi ELSE x

\* C3: a record whose flowering date is N >= 0 days before today is shown
\* with week = clamp(1, 9, N // 7 + 1).
C3_WeekIsClampedQuotient ==
    IndexShown =>
       \A i \in 1..Len(resp.rows) :
          LET row == resp.rows[i]
              N   == resp.today - FlowerOrd(row)
          IN  (Parses(row) /\ N >= 0) =>
                 WeekShown(row) = <<Clamp(1, 9, (N \div 7) + 1)>>

\* C4: a listing of a table that holds a record with an unparseable
\* flower_date does not fail, and shows week = 1 for such a record.
C4_UnparseableIsWeekOne ==
    (resp.handler = "index"
       /\ \E i \in 1..Len(records) : ~Parses(records[i])) =>
       /\ resp.status = 200
       /\ \A i \in 1..Len(resp.rows) :
             ~Parses(resp.rows[i]) => WeekShown(resp.rows[i]) = <<1>>

----------------------------------------------------------------------------

\* the forecast was computed and returned (no exception, no error row)
CloneAnswered ==
    /\ resp.handler \in CloneHandlers
    /\ resp.status = 200
    /\ resp.rows # <<ErrorRow>>

\* a Monday: a whole number of weeks away from Monday 2024-01-01
IsMonday(ord) == (ord - _ymd2ord(2024, 1, 1)) % 7 = 0

\* the week of Monday w contains the day d
InWeekOf(w, d) == w <= d /\ d - w < 7

\* a record the forecast counts
Counted(r) == Parses(r) /\ r.plants # 0

RECURSIVE SumPlants(_)
SumPlants(I) ==
    IF I = {} THEN 0
    ELSE LET i == CHOOSE j \in I : TRUE
         IN  records[i].plants + SumPlants(I \ {i})

RECURSIVE SumRows(_)
SumRows(rows) ==
    IF Len(rows) = 0 THEN 0 ELSE Head(rows).plants + SumRows(Tail(rows))

\* C5: the week bucket of every counted record is the Monday of the
\* calendar week containing its flower date: a Monday, not after the flower
\* date and less than 7 days before it; every returned row is such a
\* bucket; flower dates 2024-01-01 and 2024-01-03 share their bucket.
C5_BucketIsMondayOfFlowerWeek ==
    CloneAnswered =>
       /\ \A i \in 1..Len(resp.calc) :
             LET l == resp.calc[i]
             IN  /\ IsMonday(l.week_start)
                 /\ InWeekOf(l.week_start, l.flower)
                 /\ \A j \in 1..Len(resp.rows) :
                       InWeekOf(TextOrd(resp.rows[j].week), l.flower) =>
                          TextOrd(resp.rows[j].week) = l.week_start
       /\ \A j \in 1..Len(resp.rows) :
             /\ IsMonday(TextOrd(resp.rows[j].week))
             /\ \E i \in 1..Len(resp.calc) :
                   InWeekOf(TextOrd(resp.rows[j].week), resp.calc[i].flower)
       /\ \A i, j \in 1..Len(resp.calc) :
             (resp.calc[i].flower = _ymd2ord(2024, 1, 1)
                /\ resp.calc[j].flower = _ymd2ord(2024, 1, 3)) =>
                resp.calc[i].week_start = resp.calc[j].week_start

\* records flowering 2024-01-01 and 2024-01-03 are both counted and the
\* forecast has the row of the week of Monday 2024-01-01
C5_Witness ==
    /\ CloneAnswered
    /\ \E i, j \in 1..Len(resp.calc) :
          /\ resp.calc[i].flower = _ymd2ord(2024, 1, 1)
          /\ resp.calc[j].flower = _ymd2ord(2024, 1, 3)
    /\ \E k \in 1..Len(resp.rows) :
          resp.rows[k].week = <<DateTok(2024, 1, 1)>>

\* C6: one row per distinct week bucket at or after the cutoff; a row's
\* plants is the sum of the plant counts of the counted records of that
\* week, each once; the rows' plants add up to the plants of all counted
\* records at or after the cutoff.
C6_OneRowPerBucketWithSum ==
    CloneAnswered =>
       LET cutoff == earliest_week_start(resp.today, resp.arg)
           idx    == 1..Len(records)
       IN  /\ \A j, k \in 1..Len(resp.rows) :
                 j # k => resp.rows[j].week # resp.rows[k].week
           /\ \A j \in 1..Len(resp.rows) :
                 LET w == TextOrd(resp.rows[j].week)
                 IN  /\ w >= cutoff
                     /\ resp.rows[j].plants =
                          SumPlants({i \in idx :
                              /\ Counted(records[i])
                              /\ InWeekOf(w, FlowerOrd(records[i]))})
           /\ \A i \in idx :
                 (Counted(records[i]) /\ FlowerOrd(records[i]) >= cutoff) =>
                    \E j \in 1..Len(resp.rows) :
                       InWeekOf(TextOrd(resp.rows[j].week),
                                FlowerOrd(records[i]))
           /\ SumRows(resp.rows) =
                 SumPlants({i \in idx :
                     /\ Counted(records[i])
                     /\ FlowerOrd(records[i]) >= cutoff})

\* two records of 10 and 5 plants in one week give one row of 15 plants
C6_Witness ==
    /\ CloneAnswered
    /\ Len(resp.rows) = 1
    /\ resp.rows[1].plants = 15
    /\ \E i, j \in 1..Len(records) :
          /\ records[i].plants = 10 /\ records[j].plants = 5
          /\ InWeekOf(TextOrd(resp.rows[1].week), FlowerOrd(records[i]))
          /\ InWeekOf(TextOrd(resp.rows[1].week), FlowerOrd(records[j]))

\* a week bucket (a Monday) that holds a counted record
NonEmptyBucket(w) ==
    \E i \in 1..Len(records) :
       Counted(records[i]) /\ InWeekOf(w, FlowerOrd(records[i]))

HasRow(w) == \E j \in 1..Len(resp.rows) : TextOrd(resp.rows[j].week) = w

\* the Mondays a record of the table can fall in
BucketsOfRecords ==
    { w \in UNION { (FlowerOrd(records[i]) - 6)..FlowerOrd(records[i]) :
                      i \in { k \in 1..Len(records) : Parses(records[k]) } } :
        IsMonday(w) }

\* C7 as stated: with past_weeks = N >= 0 a bucket is returned iff it is
\* non-empty and at or after today minus N weeks.
C7_CutoffIsToday ==
    (CloneAnswered /\ resp.arg >= 0) =>
       LET cutoff == resp.today - 7 * resp.arg
       IN  /\ \A j \in 1..Len(resp.rows) :
                 TextOrd(resp.rows[j].week) >= cutoff
           /\ \A w \in BucketsOfRecords :
                 HasRow(w) <=> (NonEmptyBucket(w) /\ w >= cutoff)

\* the Monday of the week of the day d
MondayOf(d) == CHOOSE m \in (d - 6)..d : IsMonday(m)

\* C7 (amended): with past_weeks = N a bucket is returned iff it is
\* non-empty and at or after the Monday of the current week minus N weeks
\* (minus nothing when N <= 0); no earlier bucket is returned.
C7_CutoffIsMondayOfThisWeek ==
    CloneAnswered =>
       LET N      == IF resp.arg > 0 THEN resp.arg ELSE 0
           cutoff == MondayOf(resp.today) - 7 * N
       IN  /\ \A j \in 1..Len(resp.rows) :
                 TextOrd(resp.rows[j].week) >= cutoff
           /\ \A w \in BucketsOfRecords :
                 HasRow(w) <=> (NonEmptyBucket(w) /\ w >= cutoff)

\* with past_weeks = 0 on a Sunday the bucket of the Monday before is
\* returned although it is dated before today
C7_Witness ==
    /\ CloneAnswered
    /\ resp.arg = 0
    /\ \E j \in 1..Len(resp.rows) :
          /\ TextOrd(resp.rows[j].week) < resp.today
          /\ TextOrd(resp.rows[j].week) = MondayOf(resp.today)

\* total * pct / 100 rounded to the nearest integer, halves away from zero
RoundHalfAway(total, pct) ==
    IF total >= 0 THEN (2 * total * pct + 100) \div 200
    ELSE 0 - ((2 * (0 - total) * pct + 100) \div 200)

\* C8: p5, p10, p15, p20 of a row are its plant total scaled by 1.05, 1.10,
\* 1.15, 1.20 and rounded to the nearest integer, halves away from zero.
C8_RoundsHalfAwayFromZero ==
    CloneAnswered =>
       \A j \in 1..Len(resp.rows) :
          LET row == resp.rows[j]
          IN  /\ row.p5  = RoundHalfAway(row.plants, 105)
              /\ row.p10 = RoundHalfAway(row.plants, 110)
              /\ row.p15 = RoundHalfAway(row.plants, 115)
              /\ row.p20 = RoundHalfAway(row.plants, 120)

\* the source rows the loop of the forecast went through match exactly the
\* records of S, one for one
ContributorsAre(S) ==
    /\ Len(resp.calc) = Cardinality(S)
    /\ \A i \in S :
          \E j \in 1..Len(resp.calc) :
             /\ resp.calc[j].flower = FlowerOrd(records[i])
             /\ resp.calc[j].plants = records[i].plants
    /\ \A j \in 1..Len(resp.calc) :
          \E i \in S :
             /\ resp.calc[j].flower = FlowerOrd(records[i])
             /\ resp.calc[j].plants = records[i].plants

\* C9 as stated: a record contributes to the forecast iff its flower_date
\* parses (every record has a plant count).
C9_CountsEveryParseableRecord ==
    CloneAnswered =>
       ContributorsAre({i \in 1..Len(records) : Parses(records[i])})

\* C9 (amended): a record contributes to the forecast iff its flower_date
\* parses and its plant count is not zero; a record with an unparseable
\* date contributes nothing, and a forecast that fails fails on a counted
\* record, never on an unparseable one.
C9_CountsParseableNonZero ==
    /\ CloneAnswered =>
          ContributorsAre({i \in 1..Len(records) : Counted(records[i])})
    /\ (resp.handler \in CloneHandlers /\ ~CloneAnswered) =>
          \E i \in 1..Len(records) :
             /\ Counted(records[i])
             /\ ~DateInRange(FlowerOrd(records[i]) + 63)

\* a table with an unparseable record and a counted record: the forecast
\* is returned and its loop went through the one counted record
C9_Witness ==
    /\ CloneAnswered
    /\ Len(resp.calc) = 1
    /\ Len(resp.rows) = 1
    /\ \E i \in 1..Len(records) : ~Parses(records[i])
    /\ \E i \in 1..Len(records) : Counted(records[i])

----------------------------------------------------------------------------

AdviceAnswered == resp.handler = "local_heuristic_advice"

\* C10: for every integer week w the advice line is row max(1, min(w, 10))
\* of the table of the selected program (the athena table for "athena",
\* the salts table otherwise), and the lookup never raises IndexError.
C10_WeekClampedToTable ==
    AdviceAnswered =>
       LET k     == Clamp(1, 10, advIn.week)
           table == IF advIn.program = "athena" THEN AthenaTable
                    ELSE SaltsTable
           a     == resp.rows[1]
       IN  /\ resp.status = 200
           /\ a.tip # IndexError
           /\ a.tip = table[k]
           /\ a.week = k

\* week 11 answered with the athena table's week 10 line
C10_Witness ==
    /\ AdviceAnswered
    /\ advIn.week = 11
    /\ advIn.program = "athena"
    /\ resp.rows[1].tip = AthenaTable[10]

----------------------------------------------------------------------------
(* The advice text *)

\* the character c is the lower-case letter l or its capital
SameLetter(c, l) ==
    \/ c = l
    \/ \E i \in 1..Len(LowerChars) : LowerChars[i] = l /\ UpperChars[i] = c

\* the word occurs in the notes, in any letter case
HasWord(notes, word) ==
    \E i \in 1..(Len(notes) - Len(word) + 1) :
        \A k \in 1..Len(word) : SameLetter(notes[i + k - 1], word[k])

Burn    == <<"b", "u", "r", "n">>
Pale    == <<"p", "a", "l", "e">>
Yellow  == <<"y", "e", "l", "l", "o", "w">>
Lockout == <<"l", "o", "c", "k", "o", "u", "t">>
HighEc  == <<"h", "i", "g", "h", " ", "e", "c">>

NoKeyword(notes) ==
    /\ ~HasWord(notes, Burn)
    /\ ~HasWord(notes, Pale)
    /\ ~HasWord(notes, Yellow)
    /\ ~HasWord(notes, Lockout)

\* the text local_heuristic_advice returned
AdviceText == resp.rows[1].text

\* how many lines of the text are the given line
Times(text, line) == Cardinality({i \in 1..Len(text) : text[i] = <<line>>})

AthenaWeek1Asked ==
    /\ AdviceAnswered
    /\ advIn.program = "athena"
    /\ advIn.week = 1
    /\ NoKeyword(advIn.notes)
    /\ ~HasWord(advIn.notes, HighEc)

\* C11 as stated: for program "athena", week 1 and notes without a
\* keyword the returned text is the fixed string "Transplant support,
\* low EC 1.6-1.8, silica light, no heavy PK." and nothing else.
C11_OutputIsFixedString ==
    AthenaWeek1Asked =>
       AdviceText =
          << <<"Transplant support, low EC 1.6-1.8, silica light, no heavy PK.">> >>

\* C11 amended: the returned text is the line "Program: Athena | Week 1"
\* followed by the line "Transplant support, low EC 1.6-1.8, silica
\* light, no heavy PK.", and nothing else.
C11_HeaderThenFixedString ==
    AthenaWeek1Asked =>
       AdviceText =
          << <<"Program: ", "Athena", " | Week ", "1">>,
             <<"Transplant support, low EC 1.6-1.8, silica light, no heavy PK.">> >>

\* athena, week 1, notes "ok": two lines, the second the fixed string
C11_Witness ==
    /\ AthenaWeek1Asked
    /\ advIn.notes = <<"o", "k">>
    /\ Len(AdviceText) = 2
    /\ AdviceText[2] = <<AthenaTable[1]>>

\* C12: for every program and week the tip-burn line is in the returned
\* text exactly once when the notes contain "burn" in any letter case,
\* and is not in it otherwise.
C12_TipBurnOnceIffBurn ==
    AdviceAnswered =>
       Times(AdviceText, TipBurnLine) =
          (IF HasWord(advIn.notes, Burn) THEN 1 ELSE 0)

\* notes "Tip Burn" answered with the tip-burn line, for the salts table
C12_Witness ==
    /\ AdviceAnswered
    /\ advIn.notes = <<"T", "i", "p", " ", "B", "u", "r", "n">>
    /\ advIn.program = "salts"
    /\ Times(AdviceText, TipBurnLine) = 1

\* C13 as stated: the pale line is in the text once when the notes contain
\* "pale" or "yellow" and not otherwise, the lockout line once when the
\* notes contain "lockout" and not otherwise, and notes without any of
\* the keywords add no line to the header and the tip.
C13_LockoutIffLockout ==
    AdviceAnswered =>
       /\ Times(AdviceText, PaleLine) =
             (IF HasWord(advIn.notes, Pale) \/ HasWord(advIn.notes, Yellow)
              THEN 1 ELSE 0)
       /\ Times(AdviceText, LockoutLine) =
             (IF HasWord(advIn.notes, Lockout) THEN 1 ELSE 0)
       /\ NoKeyword(advIn.notes) => Len(AdviceText) = 2

\* C13 amended: the lockout line is in the text once when the notes
\* contain "lockout" or "high ec" and not otherwise; the pale line as
\* stated; notes without "burn", "pale", "yellow", "lockout" and "high ec"
\* add no line.
C13_LockoutIffLockoutOrHighEc ==
    AdviceAnswered =>
       /\ Times(AdviceText, PaleLine) =
             (IF HasWord(advIn.notes, Pale) \/ HasWord(advIn.notes, Yellow)
              THEN 1 ELSE 0)
       /\ Times(AdviceText, LockoutLine) =
             (IF HasWord(advIn.notes, Lockout) \/ HasWord(advIn.notes, HighEc)
              THEN 1 ELSE 0)
       /\ (NoKeyword(advIn.notes) /\ ~HasWord(advIn.notes, HighEc))
             => Len(AdviceText) = 2

\* notes "pale yellow" answered with one pale line and nothing else added
C13_Witness ==
    /\ AdviceAnswered
    /\ HasWord(advIn.notes, Pale)
    /\ HasWord(advIn.notes, Yellow)
    /\ Times(AdviceText, PaleLine) = 1
    /\ Len(AdviceText) = 3

----------------------------------------------------------------------------
(* The advisor's answer *)

AdvisorPosted == resp.handler = "advisor" /\ resp.arg.method = "POST"

\* a key is configured: the variable is set and not empty
KeyConfigured == Len(resp.arg.key) = 1 /\ resp.arg.key[1] # ""

\* the text of the static table for the submitted program, week and notes
StaticText ==
    local_heuristic_advice(advIn.program,
        IF resp.arg.week = "int" THEN advIn.week ELSE 1, advIn.notes).text

\* the external response, the white space around it removed
ExternalText ==
    LET t == resp.arg.call.text
        nonblank == {i \in 1..Len(t) : t[i] # <<>>}
        lo == CHOOSE i \in nonblank : \A j \in nonblank : i <= j
        hi == CHOOSE i \in nonblank : \A j \in nonblank : j <= i
    IN  SubSeq(t, lo, hi)

\* C14: an advisor POST with a key configured and the external call made
\* and succeeding answers with the external response; with no key it
\* answers with the static advice; with a key and the call raising it
\* answers with the static advice followed by the error, with status 200.
\* A status other than 200 comes only from a week field that is not an
\* integer, never from the external call.
C14_AdvisorDegrades ==
    AdvisorPosted =>
       /\ resp.status # 200 => resp.arg.week = "word"
       /\ resp.status = 200 =>
             LET answer == resp.rows[1]
                 called == resp.arg.available /\ KeyConfigured
             IN  /\ (called /\ resp.arg.call.kind = "ok")
                        => answer = ExternalText
                 /\ ~KeyConfigured => answer = StaticText
                 /\ (called /\ resp.arg.call.kind = "raise")
                        => /\ SubSeq(answer, 1, Len(StaticText)) = StaticText
                           /\ Len(answer) = Len(StaticText) + 2
                           /\ answer[Len(answer)] =
                                 <<"(OpenAI fallback: ", resp.arg.call.err, ")">>
       /\ (resp.arg.week # "word" /\ resp.arg.available /\ KeyConfigured
             /\ resp.arg.call.kind = "raise") => resp.status = 200

\* a key is set, the call raised, and the page shows the static advice
\* with the error after it
C14_Witness ==
    /\ AdvisorPosted
    /\ resp.arg.available
    /\ KeyConfigured
    /\ resp.arg.call.kind = "raise"
    /\ resp.status = 200
    /\ Len(resp.rows[1]) = Len(StaticText) + 2

----------------------------------------------------------------------------
(* Workers, tasks and the daily log *)

\* C15: after any sequence of task creations, edits and deletions, with
\* any form values, the status of every stored task is "pending", "doing"
\* or "done".
C15_StatusInDomain ==
    \A i \in 1..Len(tasks) : tasks[i].status \in {"pending", "doing", "done"}

\* C16: after any sequence of POST /workers requests no two rows of the
\* workers table have the same name.
C16_WorkerNamesUnique ==
    \A i, j \in 1..Len(workers) :
        workers[i].name = workers[j].name => i = j

\* s is the beginning of t
IsPrefix(s, t) == Len(s) <= Len(t) /\ SubSeq(t, 1, Len(s)) = s

\* the text is empty or all blanks
AllBlank(text) == \A i \in 1..Len(text) : text[i] = " "

\* C17: no request changes or removes a row of the workers table: every
\* row (id, name) is in the table, unchanged, after every request; and a
\* POST /workers with an empty or all-blank name adds no row.
C17_WorkersNeverChanged ==
    [][ /\ IsPrefix(workers, workers')
        /\ (/\ resp'.handler = "workers"
            /\ resp'.arg.method = "POST"
            /\ AllBlank(resp'.arg.name)) => workers' = workers
        /\ resp'.handler # "workers" => workers' = workers ]_vars

\* a POST /workers with the name "  " was answered with the two rows that
\* were there before it, and a task exists
C17_Witness ==
    /\ resp.handler = "workers"
    /\ resp.status = 200
    /\ resp.arg.method = "POST"
    /\ resp.arg.name = Blank
    /\ Len(workers) = 2
    /\ resp.rows = Reverse(workers)
    /\ Len(tasks) > 0

\* the characters of a text that are not blanks (the submitted rooms and
\* actions have no blank between two words)
NonBlanks(text) == SelectSeq(text, LAMBDA c : c # " ")

\* what a request other than an upload of a database does to the log
DailyStep ==
    /\ IsPrefix(daily, daily')
    /\ Len(daily') <= Len(daily) + 1
    /\ resp'.handler # "monitor" => daily' = daily
    /\ (resp'.handler = "monitor" /\ resp'.arg.method = "GET")
          => daily' = daily
    /\ (resp'.handler = "monitor" /\ resp'.arg.method = "POST") =>
          LET f == resp'.arg.form[1]
          IN  IF AllBlank(f.room) \/ AllBlank(f.action)
              THEN daily' = daily
              ELSE resp'.status = 200 =>
                     /\ Len(daily') = Len(daily) + 1
                     /\ daily'[Len(daily')].id = Len(daily')
                     /\ daily'[Len(daily')].room = NonBlanks(f.room)
                     /\ daily'[Len(daily')].action = NonBlanks(f.action)

\* C18 as stated: the daily log only grows at its end: a POST /monitor
\* with room and action both non-empty appends exactly one row with the
\* submitted room and action; one with an empty room or action appends
\* nothing; no request of any handler changes or removes a row, so the log
\* before a request is the beginning of the log after it.
C18_DailyAppendOnly == [][DailyStep]_vars

\* C18 amended: the same of every request except a POST /db/upload that
\* replaces the database file.
C18_DailyAppendOnlyButUpload ==
    [][resp'.handler # "upload_db" => DailyStep]_vars

\* a POST /monitor with an empty action was answered with the two rows
\* logged before it
C18_Witness ==
    /\ resp.handler = "monitor"
    /\ resp.status = 200
    /\ resp.arg.method = "POST"
    /\ resp.arg.form[1].action = <<>>
    /\ Len(daily) = 2
    /\ resp.rows = Reverse(daily)

\* what an edit of record rid with form f does to the table: no row is
\* added or removed, the rows with another id stay as they are, and the
\* row with the id gets the four submitted fields and keeps id and planned
EditedInPlace(rid, f) ==
    /\ Len(records') = Len(records)
    /\ \A i \in 1..Len(records) :
          IF records[i].id = rid /\ resp'.status = 302
          THEN records'[i] =
                  [id |-> rid, room |-> f.room,
                   plants |-> IF f.plants.txt = "int" THEN f.plants.v ELSE 0,
                   strain |-> f.strain, flower_date |-> f.flower_date,
                   planned |-> records[i].planned]
          ELSE records'[i] = records[i]

\* what a deletion of record rid does to the table: the row with the id
\* is taken out, the others stay as and where they are
DeletedById(rid) ==
    IF \E k \in 1..Len(records) : records[k].id = rid
    THEN \E k \in 1..Len(records) :
            /\ records[k].id = rid
            /\ Len(records') = Len(records) - 1
            /\ records' = SubSeq(records, 1, k - 1)
                              \o SubSeq(records, k + 1, Len(records))
    ELSE records' = records

\* C19: a POST to edit_record(id) replaces room, plants, strain and
\* flower_date of exactly the record with that id, which keeps its id and
\* its planned flag; delete_record(id) removes exactly that record; every
\* other record is unchanged; the number of records changes by 0 on an
\* edit and by at most 1 on a deletion.
C19_MutationsByIdInPlace ==
    [][ /\ \A rid \in 1..MaxId, f \in EditForms :
             edit_record(rid, f.room, f.plants, f.strain, f.flower_date)
                => EditedInPlace(rid, f)
        /\ \A rid \in 1..MaxId : delete_record(rid) => DeletedById(rid)
      ]_vars

\* an edit was answered with the first of two records carrying the
\* edited room and strain and a set planned flag, the second not edited
C19_Witness ==
    /\ resp.handler = "edit_record"
    /\ resp.status = 302
    /\ Len(records) = 2
    /\ records[1].room = "F3"
    /\ records[1].strain = "Kush"
    /\ records[1].planned = 1
    /\ records[2].room = "F2"

\* C20: when a request has been answered, the connection its handler
\* opened is closed, also when a statement of the handler raised.
C20_ConnectionClosed ==
    resp.handler # "none" => conn = "closed"

----------------------------------------------------------------------------
(* Requests served at the same time *)

\* the request answered last
LastProc == CHOOSE p \in Procs : ProcName(p) = resp.arg

\* the four fields of the row are the four fields of the form
HasFieldsOf(r, f) ==
    /\ r.room = f.room
    /\ r.plants = (IF f.plants.txt = "int" THEN f.plants.v ELSE 0)
    /\ r.strain = f.strain
    /\ r.flower_date = f.flower_date

\* the edit answered last has run its UPDATE, and the row with its id, if
\* there still is one, has the four fields it submitted
LastEditStored ==
    (/\ resp.handler = "edit_record"
     /\ procs[LastProc].pc = "edited")
    => \A i \in 1..Len(records) :
          records[i].id = procs[LastProc].rid
             => HasFieldsOf(records[i], procs[LastProc].form[1])

\* the UPDATE of an edit leaves the rows with another id, the order and
\* the number of the rows as they are
EditTouchesOneRow ==
    \A p \in Procs :
       (procs[p].pc = "edit_update" /\ procs'[p].pc = "edited") =>
          /\ Len(records') = Len(records)
          /\ \A i \in 1..Len(records) :
                IF records[i].id = procs[p].rid
                THEN /\ records'[i].id = records[i].id
                     /\ records'[i].planned = records[i].planned
                ELSE records'[i] = records[i]

\* C21: when edits of one id are served at the same time, in any order
\* of their statements, the record holds the four fields of the edit whose
\* UPDATE ran last, never fields of two submissions, and no other record
\* is changed.
C21_LastWriteWins == [](LastEditStored) /\ [][EditTouchesOneRow]_vars

\* two edits of record 1 with different forms both read the row as it was
\* added, and both have run their UPDATE
C21_Witness ==
    /\ procs[1].pc = "edited"
    /\ procs[2].pc = "edited"
    /\ procs[1].rid = 1
    /\ procs[2].rid = 1
    /\ procs[1].form # procs[2].form
    /\ procs[1].row = procs[2].row
    /\ procs[1].row[1].strain = "OG"
    /\ procs[1].row[1].plants = 10
    /\ resp.handler = "edit_record"
    /\ HasId(records, 1)
    /\ Len(records) = 2

\* the toggles of record rid that have run their UPDATE
Toggled(rid) == {p \in Procs : procs[p].pc = "toggled" /\ procs[p].rid = rid}

\* C27: for every record, once no toggle of it is between its SELECT and
\* its UPDATE, the planned flag is 0 (the value it was added with) after
\* an even number of toggles and 1 after an odd number.
C27_NoLostToggle ==
    \A i \in 1..Len(records) :
       (\A p \in Procs :
           ~(procs[p].pc = "toggle_update" /\ procs[p].rid = records[i].id))
       => records[i].planned = Cardinality(Toggled(records[i].id)) % 2

\* an id that was given to a record and has no row
Deleted(recs, next, rid) == rid < next /\ ~HasId(recs, rid)

\* what a request does to a record that is gone or never was
StaysAbsent ==
    /\ \A rid \in 1..MaxId :
          Deleted(records, nextId, rid) => ~HasId(records', rid)
    /\ \A p \in Procs :
          (/\ procs[p].pc \in {"edit_update", "toggle_update"}
           /\ procs'[p].pc \in {"edited", "toggled"}
           /\ ~HasId(records, procs[p].rid)) => records' = records
    /\ \A p \in Procs :
          (/\ procs[p].pc = "idle"
           /\ procs'[p].pc \in {"edit_no_row", "toggle_no_row"})
          => records' = records
    /\ \A rid \in 1..MaxId :
          (delete_record(rid) /\ ~HasId(records, rid)) => records' = records

\* C28: a record that was deleted never has a row again: the UPDATE of an
\* edit or of a toggle that found the row with its SELECT and runs after
\* the DELETE changes nothing, and an edit, a deletion or a toggle of an id
\* without a row leaves the table as it is.
C28_DeletedStaysDeleted == [][StaysAbsent]_vars

\* an edit of record 1 read the row, ran its UPDATE and was answered last,
\* and record 1 has no row: it was deleted between the two statements
C28_Witness ==
    /\ resp.handler = "edit_record"
    /\ procs[LastProc].pc = "edited"
    /\ procs[LastProc].rid = 1
    /\ procs[LastProc].row # <<>>
    /\ Deleted(records, nextId, 1)
    /\ \E p \in Procs : procs[p].pc = "toggled" /\ procs[p].rid = 1

----------------------------------------------------------------------------
(* The database file *)

\* the shared secret the key parameter of a request is to carry
SharedSecret == "s3cret"

\* C22: a request to upload_db that replaced the database file, and a
\* request to download_db that was answered with the file's contents,
\* carried the shared secret as its key parameter.
C22_BehindSharedSecret ==
    /\ (resp.handler = "upload_db" /\ resp.arg.msg = "Uploaded.")
          => resp.arg.key = <<SharedSecret>>
    /\ (resp.handler = "download_db" /\ resp.status = 200)
          => resp.arg.key = <<SharedSecret>>

----------------------------------------------------------------------------
(* Records: input that cannot be processed, the planned flag *)

\* C23: a POST to add_record or edit_record is never a failed request: a
\* plants value that is not an integer is answered with a page carrying a
\* message (status 200), not with status 500.
C23_BadInputAnsweredInline ==
    resp.handler \in {"add_record", "edit_record"} => resp.status # 500

\* what a toggle of record rid does to the table: the flag of the row with
\* the id goes from 0 to 1 or from 1 to 0, its other fields and the other
\* rows stay; without such a row the table stays
FlippedById(rid) ==
    /\ Len(records') = Len(records)
    /\ \A i \in 1..Len(records) :
          IF records[i].id = rid
          THEN /\ records'[i].planned = 1 - records[i].planned
               /\ records'[i].id = rid
               /\ records'[i].room = records[i].room
               /\ records'[i].plants = records[i].plants
               /\ records'[i].strain = records[i].strain
               /\ records'[i].flower_date = records[i].flower_date
          ELSE records'[i] = records[i]

\* an addition that stored a row stored it with the flag 0
AddedUnplanned ==
    Len(records') = Len(records) + 1 => records'[Len(records')].planned = 0

\* an edit keeps the flag of every row
EditKeepsPlanned ==
    /\ Len(records') = Len(records)
    /\ \A i \in 1..Len(records) : records'[i].planned = records[i].planned

\* C26: from an empty table, under add_record, edit_record, delete_record
\* and toggle_planned, every planned flag is 0 or 1; add_record stores 0,
\* edit_record keeps the flag, toggle_planned(id) flips the flag of the
\* record with the id and changes nothing else, nothing at all when no
\* record has the id; toggling the same id twice gives the table back.
C26_PlannedFlag ==
    /\ [](\A i \in 1..Len(records) : records[i].planned \in {0, 1})
    /\ [](\A rid \in 1..MaxId + 1 :
            toggle_planned_rows(toggle_planned_rows(records, rid), rid)
               = records)
    /\ [][ /\ \A f \in AddForms :
                add_record(f.room, f.plants, f.strain, f.flower_date)
                   => AddedUnplanned
           /\ \A rid \in 1..MaxId, f \in EditForms :
                edit_record(rid, f.room, f.plants, f.strain, f.flower_date)
                   => EditKeepsPlanned
           /\ \A rid \in 1..MaxId : toggle_planned(rid) => FlippedById(rid)
         ]_vars

\* a toggle was answered with two records stored, the first one edited
\* and planned, the second one not planned, and record 2 deleted before
C26_Witness ==
    /\ resp.handler = "toggle_planned"
    /\ Len(records) = 1
    /\ records[1].id = 1
    /\ records[1].room = "F3"
    /\ records[1].planned = 1
    /\ nextId = 3

----------------------------------------------------------------------------
(* Tasks and their assignees *)

\* C25: every stored task has no assignee or the id of a stored worker as
\* its assignee_id.
C25_AssigneeExists ==
    \A i \in 1..Len(tasks) :
        \/ tasks[i].assignee_id = <<>>
        \/ \E k \in 1..Len(workers) : workers[k].id = tasks[i].assignee_id[1]

----------------------------------------------------------------------------
(* The listing and its filter *)

\* the record is due in a listing asked for with the given future
\* argument on the day td: always when the argument is not "1", otherwise
\* when its flower_date does not parse or its harvest date, 63 days after
\* the flower date, is td or later
Listed(r, future, td) ==
    \/ future # "1"
    \/ ~Parses(r)
    \/ FlowerOrd(r) + 63 >= td

\* C29: a listing shown by index holds one row for each record that is
\* due (with future=1 the records whose harvest date, flower_date + 63
\* days, is today or later and the records whose flower_date does not
\* parse; otherwise every record) and no other row; a row whose
\* flower_date does not parse has an empty harvest date and empty days
\* remaining; the rows are in descending order of id; index leaves the
\* records table as it is.
C29_FutureListing ==
    /\ [](IndexShown =>
            /\ \A i \in 1..Len(records) :
                  Listed(records[i], resp.arg, resp.today)
                     <=> \E j \in 1..Len(resp.rows) :
                            /\ resp.rows[j].id = records[i].id
                            /\ resp.rows[j].flower_date
                                  = records[i].flower_date
            /\ \A j \in 1..Len(resp.rows) :
                  /\ \E i \in 1..Len(records) :
                        records[i].id = resp.rows[j].id
                  /\ ~Parses(resp.rows[j]) =>
                        resp.rows[j].harvest = <<>> /\ resp.rows[j].days = <<>>
            /\ \A j, k \in 1..Len(resp.rows) :
                  j < k => resp.rows[j].id > resp.rows[k].id)
    /\ [][\A future \in FutureArgs :
             (resp'.handler = "index" /\ index(future)) => records' = records
         ]_vars

\* a listing asked for with future=1 on 2024-01-07 shows the record whose
\* harvest is that very day above nothing else, the other record, whose
\* harvest was 2024-01-03, being left out
C29_Witness ==
    /\ IndexShown
    /\ resp.arg = "1"
    /\ resp.today = Today0
    /\ Len(records) = 2
    /\ records[1].flower_date = Old
    /\ records[2].flower_date = Nov05
    /\ Len(resp.rows) = 1
    /\ resp.rows[1].id = 2
    /\ resp.rows[1].days = <<0>>

----------------------------------------------------------------------------
(* The location of the database *)

Started == resp.handler \in {"app_web", "app_web_prod"}

\* C24: a started program uses the file DB_PATH names when DB_PATH is
\* set; otherwise harvest.db in the directory DB_DIR names when DB_DIR is
\* set, so that the file lies in DB_DIR; otherwise harvest.db in
\* /opt/render/project/src/data or, as the last fallback, a file of the
\* local directory.
C24_LocationPrecedence ==
    Started =>
       LET path == resp.arg.DB_PATH
       IN  IF Truthy(environ.DB_PATH)
           THEN path = environ.DB_PATH[1]
           ELSE IF Truthy(environ.DB_DIR)
           THEN /\ path = join(environ.DB_DIR[1], "harvest.db")
                /\ parent(path) = environ.DB_DIR[1]
           ELSE path \in { join(render_data_dir, "harvest.db"),
                           local_side_by_side, default_path,
                           LOCAL_DB_PATH }

====
